---------------------------- MODULE Spec2Model ----------------------------
(***************************************************************************)
(* A model of the extraction-mapping pipeline of rfq_analyzer:             *)
(*   - the Field Mapper    (analyzer/spec_extractor.py)                    *)
(*   - the Translator      (translator/translator.py)                      *)
(*   - the Relevance Filter (analyzer/doc_filter.py)                       *)
(*                                                                         *)
(* Strings are sequences of one-character strings, so that lower(),        *)
(* strip(), slicing and the `in` operator are computed, not assumed.       *)
(* Confidences are integers in units of 1/3000: 3000 stands for 1.0,       *)
(* 900 for 0.3, 1000 for 1/3 (whose product with 0.9 is exactly 0.3, also  *)
(* in IEEE doubles).                                                       *)
(***************************************************************************)
EXTENDS Integers, Sequences, FiniteSets, TLC

VARIABLES
    \* ---- Field Mapper ----
    template_fields,   \* list[TemplateField], as read from the template
    extracted_specs,   \* list[ExtractedSpec] handed to the mapper
    candidates,        \* (best_match, best_confidence) of each spec after its scan
    tentative,         \* the list `mappings` of map_specs_to_template before deduplication
    mappings,          \* result of map_specs_to_template
    unmatched,         \* result of get_unmatched_specs
    mpc,               \* position of the mapping stage: "start", "mapped", "done"
    \* ---- Translator ----
    cache_enabled,     \* GeminiTranslator.cache_enabled
    cache,             \* the files of cache_folder: cache key -> stored entry
    page,              \* a ParsedPage: text, language, text_translated, original_text
    decoded_text,      \* the text the document decoder supplied for the page
    calls,             \* number of translate_text calls made so far
    tcall,             \* the last translate_text call: arguments, locals, outcome
    pcall,             \* the last translate_page call: the page before it, outcome
    \* ---- Relevance Filter ----
    doc_pages,         \* the texts of the document's pages, in page order
    filter_keywords,   \* DocumentFilter.filter_keywords
    fres,              \* what is_relevant returned, and what its oracle call did
    fpc,               \* "start" before the is_relevant call, "done" after it
    \* ---- Spec Extractor ----
    e_file,            \* doc.file_name
    e_pages,           \* doc.pages: the text and original_text of each page
    page_results,      \* what extract_specs_from_page did for the pages so far
    all_specs,         \* all_specs of extract_from_document
    next_ref,          \* the number of SpecReference objects constructed so far
    epc,               \* "pages" in the loop, "done" after it, "aborted" on a raise
    \* ---- Oracle client: GeminiClient.generate ----
    max_retries,       \* self.max_retries
    retry_delay,       \* self.retry_delay, in seconds
    attempt,           \* the loop variable of generate: the attempt to make next
    last_error,        \* last_error: <<>> for None, <<e>> for the exception e
    g_errors,          \* the results of the attempts made so far, in order
    g_sleeps,          \* the arguments of the time.sleep calls so far, in order
    g_out,             \* how generate ended: "running", "return" or "raise"
    \* ---- Pipeline orchestrator: main() ----
    documents,         \* documents: the parsed documents, in folder order
    relevant_docs,     \* relevant_docs, as indices into documents
    p_doc,             \* the document of the current loop iteration
    p_page,            \* the page of the current loop iteration
    p_events,          \* the stages run so far: <<stage, document>>, in order
    ppc,               \* the phase of main(): "translate", "filter", ...
    \* ---- Parallel callers of translate_text on one text ----
    shared_file,       \* the cache file of the text's key: exists, data
    c_pc,              \* where each caller is in translate_text
    c_local,           \* each caller's locals: cached, translated, result
    c_stored,          \* the translations whose write_text has completed
    \* ---- Template reader: TemplateMapper.read_template ----
    ws_cells,          \* column A of the sheet, rows 1..ws.max_row
    t_fields,          \* self.fields
    header_row,        \* self.header_row: <<>> for None, <<field>> otherwise
    wpc,               \* "start" before the read_template call, "done" after it
    \* ---- Startup and end of main() ----
    api_key,           \* args.api_key or gemini_config.get("api_key", "")
    input_existed,     \* whether the input folder existed when main() started
    input_exists,      \* whether the input folder exists now
    template_exists,   \* whether the template file exists
    reported,          \* the messages of the logger.error calls, in order
    output_written     \* whether excel_writer.write_results has run

mvars == <<template_fields, extracted_specs, candidates, tentative, mappings, unmatched, mpc>>

tvars == <<cache_enabled, cache, page, decoded_text, calls, tcall, pcall>>

fvars == <<doc_pages, filter_keywords, fres, fpc>>

evars == <<e_file, e_pages, page_results, all_specs, next_ref, epc>>

gvars == <<max_retries, retry_delay, attempt, last_error, g_errors, g_sleeps, g_out>>

pvars == <<documents, relevant_docs, p_doc, p_page, p_events, ppc>>

cvars == <<shared_file, c_pc, c_local, c_stored>>

wvars == <<ws_cells, t_fields, header_row, wpc>>

svars == <<api_key, input_existed, input_exists, template_exists, reported, output_written>>

vars == <<mvars, tvars, fvars, evars, gvars, pvars, cvars, wvars, svars>>

-----------------------------------------------------------------------------
(* Bounds of the model *)

MaxFields == 2
MaxSpecs == 2
\* translate_text calls in one run
MaxCalls == 3
\* pages of a document
MaxPages == 4
\* pages of a document handed to the extractor
MaxExtractPages == 2
\* the greatest configured gemini.max_retries
MaxRetries == 3
\* documents in the input folder
MaxDocs == 2
\* threads calling translate_text at the same time
MaxCallers == 3
\* rows of the template sheet
MaxRows == 3

-----------------------------------------------------------------------------
(* Python str operations on sequences of characters *)

\* str.lower() on one character (the alphabet of the model's strings)
LowerChar(c) ==
    CASE c = "A" -> "a"
      [] c = "B" -> "b"
      [] c = "C" -> "c"
      [] c = "D" -> "d"
      [] c = "E" -> "e"
      [] c = "G" -> "g"
      [] c = "I" -> "i"
      [] c = "K" -> "k"
      [] c = "M" -> "m"
      [] c = "R" -> "r"
      [] c = "T" -> "t"
      [] OTHER -> c

\* str.lower()
Lower(s) == [i \in 1..Len(s) |-> LowerChar(s[i])]

\* the characters str.strip() removes
IsSpace(c) == c \in {" ", "\n", "\t"}

SetMin(S) == CHOOSE x \in S : \A y \in S : x <= y
SetMax(S) == CHOOSE x \in S : \A y \in S : x >= y

\* str.strip()
Strip(s) ==
    LET keep == {i \in 1..Len(s) : ~IsSpace(s[i])}
    IN  IF keep = {} THEN <<>> ELSE SubSeq(s, SetMin(keep), SetMax(keep))

\* needle in hay   (Python substring test; the empty string is in every string)
Contains(needle, hay) ==
    \E i \in 0..(Len(hay) - Len(needle)) :
        SubSeq(hay, i + 1, i + Len(needle)) = needle

\* All sequences over S of length at most n
SeqsUpTo(S, n) == UNION {[1..k -> S] : k \in 0..n}

-----------------------------------------------------------------------------
(* Field Mapper: SpecExtractor.map_specs_to_template / get_unmatched_specs *)

\* match confidence of an exact match: best_confidence = 1.0
ExactConfidence == 3000
\* acceptance threshold of a tentative mapping: best_confidence > 0.3
MinMatchConfidence == 900

\* spec.confidence * 0.9
PartialConfidence(spec) == (spec.confidence * 9) \div 10

\* used_fields = set(): nothing is ever added to it
used_fields == {}

\* the mutant: equality after lower-casing only
ExactMatchNoStrip(spec, field) ==
    Lower(spec.spec_name) = Lower(field.spec_name)

\* spec.spec_name.lower().strip() == field.spec_name.lower().strip()
ExactMatch(spec, field) ==
    Strip(Lower(spec.spec_name)) = Strip(Lower(field.spec_name))

\* spec name in field name, or field name in spec name (lower-cased, untrimmed)
PartialMatch(spec, field) ==
    \/ Contains(Lower(spec.spec_name), Lower(field.spec_name))
    \/ Contains(Lower(field.spec_name), Lower(spec.spec_name))

\* best_match = None; best_confidence = 0.0
NoMatch == [match |-> <<>>, confidence |-> 0]

\* The scan of the template for one spec, from field i on, with the best
\* candidate so far.  The result is [match, confidence]; match is <<>> for
\* None and <<field>> otherwise.
RECURSIVE ScanFields(_, _, _, _)
ScanFields(spec, fields, i, best) ==
    IF i > Len(fields) THEN best
    ELSE LET field == fields[i] IN
         IF field.row \in used_fields
         THEN ScanFields(spec, fields, i + 1, best)
         ELSE IF ExactMatch(spec, field)
         THEN [match |-> <<field>>, confidence |-> ExactConfidence]
         ELSE IF PartialMatch(spec, field) /\ spec.confidence > best.confidence
         THEN ScanFields(spec, fields, i + 1,
                         [match |-> <<field>>, confidence |-> PartialConfidence(spec)])
         ELSE ScanFields(spec, fields, i + 1, best)

\* the tentative (field, confidence) of one spec
BestCandidate(spec, fields) == ScanFields(spec, fields, 1, NoMatch)

\* the mutant: a threshold that admits 0.3 itself
KeepTentativeAtLeast(best) ==
    best.match # <<>> /\ best.confidence >= MinMatchConfidence

\* if best_match and best_confidence > 0.3
KeepTentative(best) ==
    best.match # <<>> /\ best.confidence > MinMatchConfidence

\* the mutant: the scan for a spec skips the fields that earlier specs chose
CandidatesMarking(specs, fields) ==
    [i \in 1..Len(specs) |->
        BestCandidate(specs[i],
                      SelectSeq(fields, LAMBDA f :
                          \A j \in 1..(i - 1) :
                              BestCandidate(specs[j], fields).match # <<f>>))]

\* (best_match, best_confidence) at line 234, for every spec of the input
Candidates(specs, fields) ==
    [i \in 1..Len(specs) |-> BestCandidate(specs[i], fields)]

\* The list `mappings` after the loop over the specs: one MappingResult for
\* every spec whose candidate is kept, in input order.
RECURSIVE TentativeMappings(_, _, _)
TentativeMappings(specs, cands, i) ==
    IF i > Len(specs) THEN <<>>
    ELSE LET best == cands[i]
             rest == TentativeMappings(specs, cands, i + 1)
         IN  IF KeepTentative(best)
             THEN <<[template_field |-> best.match[1],
                     extracted_spec |-> specs[i],
                     match_confidence |-> best.confidence]>> \o rest
             ELSE rest

\* the mutant: the deduplication keyed by the spec instead of the row
MappingKeyBySpec(m) == m.extracted_spec.id

\* row = m.template_field.row
MappingKey(m) == m.template_field.row

\* the mutant: every later mapping to the row replaces the earlier one
ReplacesAlways(m, old) == TRUE

\* the mutant: a later mapping of equal confidence replaces the earlier one
ReplacesOnTie(m, old) == m.match_confidence >= old.match_confidence

\* m.match_confidence > best_mappings[row].match_confidence
Replaces(m, old) == m.match_confidence > old.match_confidence

\* The dict best_mappings after the deduplication loop has handled
\* ms[i..]; a dict keeps its keys in the order of their first insertion, so
\* it is a sequence with one entry per key.
RECURSIVE Deduplicate(_, _, _)
Deduplicate(ms, i, best) ==
    IF i > Len(ms) THEN best
    ELSE LET m == ms[i]
             at == {k \in 1..Len(best) : MappingKey(best[k]) = MappingKey(m)}
         IN  IF at = {}
             THEN Deduplicate(ms, i + 1, Append(best, m))
             ELSE LET k == CHOOSE k \in at : TRUE IN
                  IF Replaces(m, best[k])
                  THEN Deduplicate(ms, i + 1, [best EXCEPT ![k] = m])
                  ELSE Deduplicate(ms, i + 1, best)

\* the mutant: a deduplication that keeps the first mapping only
DeduplicateFirstOnly(ms) == IF ms = <<>> THEN <<>> ELSE <<ms[1]>>

\* list(best_mappings.values())
DeduplicateAll(ms) == Deduplicate(ms, 1, <<>>)

\* the mutant: names compared as they are
NameKeyExact(name) == name

\* s.spec_name.lower()
NameKey(name) == Lower(name)

get_unmatched_specs(specs, ms) ==
    LET mapped_spec_names == {NameKey(ms[k].extracted_spec.spec_name) : k \in 1..Len(ms)}
    IN  SelectSeq(specs, LAMBDA s : NameKey(s.spec_name) \notin mapped_spec_names)

-----------------------------------------------------------------------------
(* Inputs of the Field Mapper *)

\* names the oracle may report: "", "a", "A", "a ", "ab"
SpecNames == {<<>>, <<"a">>, <<"A">>, <<"a", " ">>, <<"a", "b">>}

\* names of template rows (read_template trims them): "", "a", "Ab"
FieldNames == {<<>>, <<"a">>, <<"A", "b">>}

\* extraction confidences the oracle may report: 0.0, 1/3, 0.5, 1.0, and 1.5,
\* which is outside the documented range
Confidences == {0, 1000, 1500, 3000, 4500}

\* the templates read_template can return: rows in increasing order
Templates ==
    {[i \in 1..Len(ns) |-> [row |-> i + 1, spec_name |-> ns[i]]] :
        ns \in SeqsUpTo(FieldNames, MaxFields)}

\* lists of ExtractedSpecs; id is the object's identity (its position)
SpecLists ==
    {[i \in 1..Len(ss) |-> [id |-> i, spec_name |-> ss[i][1], confidence |-> ss[i][2]]] :
        ss \in SeqsUpTo(SpecNames \X Confidences, MaxSpecs)}

-----------------------------------------------------------------------------
(* The mapping stage of main(): rfq_analyzer.py lines 213-235 *)

MapperInit ==
    /\ template_fields \in Templates
    /\ extracted_specs = <<>>
    /\ candidates = <<>>
    /\ tentative = <<>>
    /\ mappings = <<>>
    /\ unmatched = <<>>
    /\ mpc = "start"

\* mappings = spec_extractor.map_specs_to_template(all_extracted_specs, template_fields)
\* The whole of map_specs_to_template: the early return on an empty input,
\* the scan of the template for every spec, the threshold, the deduplication.
MapSpecs ==
    /\ mpc = "start"
    /\ \E specs \in SpecLists :
        /\ extracted_specs' = specs
        /\ IF specs = <<>>
           THEN /\ candidates' = <<>>
                /\ tentative' = <<>>
                /\ mappings' = <<>>
           ELSE /\ candidates' = Candidates(specs, template_fields)
                /\ tentative' = TentativeMappings(specs, candidates', 1)
                /\ mappings' = DeduplicateAll(tentative')
    /\ mpc' = "mapped"
    /\ UNCHANGED <<template_fields, unmatched>>
    /\ UNCHANGED <<tvars, fvars, evars, gvars, pvars, cvars, wvars, svars>>

\* unmatched = spec_extractor.get_unmatched_specs(all_extracted_specs, mappings)
GetUnmatched ==
    /\ mpc = "mapped"
    /\ unmatched' = get_unmatched_specs(extracted_specs, mappings)
    /\ mpc' = "done"
    /\ UNCHANGED <<template_fields, extracted_specs, candidates, tentative, mappings>>
    /\ UNCHANGED <<tvars, fvars, evars, gvars, pvars, cvars, wvars, svars>>

MapperNext == MapSpecs \/ GetUnmatched

-----------------------------------------------------------------------------
(* Texts of the Translator *)

\* "  "
T_Blank == <<" ", " ">>
\* "Kontrast": German, too short for detection
T_ShortDE ==
    <<"K", "o", "n", "t", "r", "a", "s", "t">>
\* "Kontrastverhaeltnis: 1500:1"
T_DE ==
    <<"K", "o", "n", "t", "r", "a", "s", "t", "v", "e", "r", "h", "a", "e",
      "l", "t", "n", "i", "s", ":", " ", "1", "5", "0", "0", ":", "1">>
\* the same with surrounding whitespace, as a decoder supplies it
T_DEPadded == <<" ">> \o T_DE \o <<"\n">>
\* "Contrast Ratio: 1500:1"
T_EN ==
    <<"C", "o", "n", "t", "r", "a", "s", "t", " ", "R", "a", "t", "i", "o",
      ":", " ", "1", "5", "0", "0", ":", "1">>
\* "1500:1 @ 25; 1500:1 @ 60": no letters, the detector raises on it
T_Digits ==
    <<"1", "5", "0", "0", ":", "1", " ", "@", " ", "2", "5", ";", " ", "1",
      "5", "0", "0", ":", "1", " ", "@", " ", "6", "0">>

\* the texts a decoder may supply for a page
PageTexts == {T_Blank, T_ShortDE, T_DE, T_DEPadded, T_EN, T_Digits}

\* the texts translate_text is called with directly
TextArgs == {T_Blank, T_DE}

\* the source_lang arguments: a known code and an unknown one
LangArgs == {"de", "xx"}

\* What the oracle call of translate_text can do: raise; return a response
\* whose text is None; return a response text (an English translation with
\* surrounding whitespace, a blank text, the German text again).
OracleOutcomes ==
    {[kind |-> "raise", text |-> <<>>],
     [kind |-> "no_text", text |-> <<>>],
     [kind |-> "text", text |-> <<" ">> \o T_EN \o <<"\n">>],
     [kind |-> "text", text |-> <<" ", "\n">>],
     [kind |-> "text", text |-> T_DE]}

-----------------------------------------------------------------------------
(* Language Identifier: translator/language_detector.py *)

\* minimum length of the trimmed text for detection
MinDetectLen == 20

Letters ==
    {"a", "b", "c", "d", "e", "f", "g", "h", "i", "k", "l", "n", "o", "r", "s",
     "t", "v", "A", "B", "C", "D", "K", "R"}

\* langdetect.detect, an external library seeded to be deterministic: on the
\* texts of the model it raises when the text has no letters, answers "de"
\* for the German text and "en" otherwise.
LangDetect(clean_text) ==
    IF \A i \in 1..Len(clean_text) : clean_text[i] \notin Letters THEN "raise"
    ELSE IF Contains(T_ShortDE, clean_text) THEN "de"
    ELSE "en"

\* LanguageDetector.detect
detect(text) ==
    LET clean_text == Strip(text)
    IN  IF Len(clean_text) < MinDetectLen THEN "en"
        ELSE LET lang == LangDetect(clean_text)
             IN  IF lang = "raise" THEN "en" ELSE lang

\* LanguageDetector.needs_translation, with target_lang = "en"
needs_translation(lang_code) == lang_code # "en"

-----------------------------------------------------------------------------
(* Translator: translator/translator.py *)

\* An optional value: <<>> is None, <<v>> is the value v.
None == <<>>
Some(v) == <<v>>

\* original[:200]
OriginalPrefixLen == 200
Prefix(text, n) == SubSeq(text, 1, IF Len(text) < n THEN Len(text) ELSE n)

\* GeminiTranslator._get_cache_key: the md5 hex digest of the text, a
\* function of the content alone (no two texts of the model collide)
get_cache_key(text) == [md5 |-> text]

\* a cache file that holds no JSON document: write_text opened it, which
\* empties it, and the write of the data failed, leaving nothing or a part
\* of the entry
TruncatedFile == [truncated |-> TRUE]

\* GeminiTranslator._load_from_cache: the stored translated_text, or None
\* (no file; a file json.loads raises on)
load_from_cache(cache_key) ==
    IF ~cache_enabled THEN None
    ELSE IF cache_key \in DOMAIN cache
         THEN IF cache[cache_key] = TruncatedFile
              THEN None
              ELSE Some(cache[cache_key].translated_text)
         ELSE None

\* what becomes of cache_file.write_text: the entry is written; open(mode="w")
\* raises and the file is untouched; open creates or empties the file and the
\* write raises (a full disk, a file size limit)
WriteOutcomes == {"ok", "open_fails", "write_fails"}

\* GeminiTranslator._save_to_cache: the cache after the call, where write_text
\* does `write`; its exception is logged and swallowed
save_to_cache(cache_key, original, translated, write) ==
    IF ~cache_enabled THEN cache
    ELSE IF write = "open_fails" THEN cache
    ELSE [k \in DOMAIN cache \cup {cache_key} |->
             IF k = cache_key
             THEN IF write = "write_fails"
                  THEN TruncatedFile
                  ELSE [original_text |-> Prefix(original, OriginalPrefixLen),
                        translated_text |-> translated]
             ELSE cache[k]]

\* `if cached:` -- the truth value of an optional string
Truthy(cached) == cached # None /\ cached[1] # <<>>

\* the mutant: the failed call answers with an empty text
FailureResultEmpty(text) == <<>>

\* except Exception: return text
FailureResult(text) == text

\* the mutant: a translate_text that stores the fallback of a failed call
translate_text_storing_fallback(text, source_lang, outcome, write) ==
    LET cache_key == get_cache_key(text)
        cached == load_from_cache(cache_key)
        base == [text |-> text, source_lang |-> source_lang, raised |-> FALSE]
    IN  IF Strip(text) = <<>>
        THEN base @@ [result |-> text, cache |-> cache, cached |-> None,
                      looked_up |-> FALSE, oracle |-> "none", saved |-> FALSE]
        ELSE IF Truthy(cached)
        THEN base @@ [result |-> cached[1], cache |-> cache, cached |-> cached,
                      looked_up |-> TRUE, oracle |-> "none", saved |-> FALSE]
        ELSE IF outcome.kind \in {"raise", "no_text"}
        THEN base @@ [result |-> text,
                      cache |-> save_to_cache(cache_key, text, text, "ok"),
                      cached |-> cached, looked_up |-> TRUE,
                      oracle |-> IF outcome.kind = "raise" THEN "raised" ELSE "no_text",
                      saved |-> cache_enabled]
        ELSE LET translated == Strip(outcome.text)
             IN  base @@ [result |-> translated,
                          cache |-> save_to_cache(cache_key, text, translated, write),
                          cached |-> cached, looked_up |-> TRUE, oracle |-> "ok",
                          saved |-> cache_enabled /\ write = "ok"]

\* GeminiTranslator.translate_text(text, source_lang), where the oracle call
\* does `outcome` if it is reached and write_text does `write`.
\* The result: the returned text, the cache afterwards, and for the record
\* the local `cached`, what became of the oracle call ("none" when it was not
\* made, "ok", "raised", "no_text"), and whether translate_text raised.
translate_text(text, source_lang, outcome, write) ==
    LET cache_key == get_cache_key(text)
        cached == load_from_cache(cache_key)
        base == [text |-> text, source_lang |-> source_lang, raised |-> FALSE]
    IN  IF Strip(text) = <<>>
        THEN base @@ [result |-> text, cache |-> cache, cached |-> None,
                      looked_up |-> FALSE, oracle |-> "none", saved |-> FALSE]
        ELSE IF Truthy(cached)
        THEN base @@ [result |-> cached[1], cache |-> cache, cached |-> cached,
                      looked_up |-> TRUE, oracle |-> "none", saved |-> FALSE]
        ELSE IF outcome.kind = "raise"
        THEN base @@ [result |-> FailureResult(text), cache |-> cache, cached |-> cached,
                      looked_up |-> TRUE, oracle |-> "raised", saved |-> FALSE]
        ELSE IF outcome.kind = "no_text"
        THEN base @@ [result |-> FailureResult(text), cache |-> cache, cached |-> cached,
                      looked_up |-> TRUE, oracle |-> "no_text", saved |-> FALSE]
        ELSE LET translated == Strip(outcome.text)
             IN  base @@ [result |-> translated,
                          cache |-> save_to_cache(cache_key, text, translated, write),
                          cached |-> cached, looked_up |-> TRUE, oracle |-> "ok",
                          saved |-> cache_enabled /\ write = "ok"]

\* the generate_content calls of a translate_text call: the one call of the
\* try block, made directly on the genai client, when the call gets there
OracleAttempts(c) == IF c.oracle = "none" THEN 0 ELSE 1

\* gemini.max_retries when the configuration does not set it
DefaultMaxRetries == 3

\* GeminiTranslator.translate_page(pg): the page afterwards, the cache
\* afterwards, and what became of the oracle call
translate_page(pg, outcome, write) ==
    LET lang == detect(pg.text)
    IN  IF needs_translation(lang)
        THEN LET r == translate_text(pg.text, lang, outcome, write)
             IN  [page |-> [text |-> r.result, language |-> lang,
                            text_translated |-> r.result,
                            original_text |-> pg.text],
                  cache |-> r.cache, oracle |-> r.oracle]
        ELSE [page |-> [text |-> pg.text, language |-> lang,
                        text_translated |-> pg.text,
                        original_text |-> pg.text],
              cache |-> cache, oracle |-> "none"]

\* the record of a call, without the cache
CallRecord(r) ==
    [f \in (DOMAIN r) \ {"cache"} |-> r[f]]

NoCall ==
    [text |-> <<>>, source_lang |-> "", raised |-> FALSE, result |-> <<>>,
     cached |-> None, looked_up |-> FALSE, oracle |-> "none", saved |-> FALSE]

NoPageCall == [text |-> <<>>, language |-> "", translated |-> FALSE, oracle |-> "none"]

TranslatorInit ==
    /\ cache_enabled \in BOOLEAN
    /\ cache = << >>
    /\ decoded_text \in PageTexts
    /\ page = [text |-> decoded_text, language |-> "en",
               text_translated |-> <<>>, original_text |-> <<>>]
    /\ calls = 0
    /\ tcall = NoCall
    /\ pcall = NoPageCall

\* a call of translate_text by a user of the class
TranslateText ==
    /\ calls < MaxCalls
    /\ \E text \in TextArgs, source_lang \in LangArgs,
          outcome \in OracleOutcomes, write \in WriteOutcomes :
        LET r == translate_text(text, source_lang, outcome, write)
        IN  /\ cache' = r.cache
            /\ tcall' = CallRecord(r)
    /\ calls' = calls + 1
    /\ UNCHANGED <<cache_enabled, page, decoded_text, pcall>>
    /\ UNCHANGED <<mvars, fvars, evars, gvars, pvars, cvars, wvars, svars>>

\* GeminiTranslator.translate_page(page), when the page needs translation
TranslatePageForeign ==
    /\ calls < MaxCalls
    /\ LET lang == detect(page.text) IN
       /\ needs_translation(lang)
       /\ \E outcome \in OracleOutcomes, write \in WriteOutcomes :
            LET r == translate_text(page.text, lang, outcome, write)
            IN  /\ cache' = r.cache
                /\ tcall' = CallRecord(r)
                /\ page' = [text |-> r.result, language |-> lang,
                            text_translated |-> r.result,
                            original_text |-> page.text]
                /\ pcall' = [text |-> page.text, language |-> lang,
                             translated |-> TRUE, oracle |-> r.oracle]
    /\ calls' = calls + 1
    /\ UNCHANGED <<cache_enabled, decoded_text>>
    /\ UNCHANGED <<mvars, fvars, evars, gvars, pvars, cvars, wvars, svars>>

\* GeminiTranslator.translate_page(page), when it does not
TranslatePageEnglish ==
    /\ LET lang == detect(page.text) IN
       /\ ~needs_translation(lang)
       /\ page' = [text |-> page.text, language |-> lang,
                   text_translated |-> page.text,
                   original_text |-> page.text]
       /\ pcall' = [text |-> page.text, language |-> lang,
                    translated |-> FALSE, oracle |-> "none"]
    /\ UNCHANGED <<cache_enabled, cache, decoded_text, calls, tcall>>
    /\ UNCHANGED <<mvars, fvars, evars, gvars, pvars, cvars, wvars, svars>>

TranslatorNext == TranslateText \/ TranslatePageForeign \/ TranslatePageEnglish

-----------------------------------------------------------------------------
(* Relevance Filter: analyzer/doc_filter.py *)

\* page.text[:2000]
PageBudget == 2000
\* doc.pages[:5]
MaxSamplePages == 5
\* len(sample_text.strip()) < 50
MinSampleLen == 50

\* "Contrast" and "Glass"
K_Contrast == <<"C", "o", "n", "t", "r", "a", "s", "t">>
K_Glass == <<"G", "l", "a", "s", "s">>
\* "contrast", in lower case
K_contrast == <<"c", "o", "n", "t", "r", "a", "s", "t">>

\* the keyword lists of a configuration
KeywordLists == {<<>>, <<K_Contrast>>, <<K_Glass>>, <<K_Glass, K_Contrast>>, <<K_contrast>>}

\* the page texts of the documents handed to the filter
FilterTexts == {<<>>, T_EN, T_DE}

\* page_label = f"Page {i}"
Digit(i) == CASE i = 1 -> "1" [] i = 2 -> "2" [] i = 3 -> "3" [] i = 4 -> "4"
              [] i = 5 -> "5" [] i = 6 -> "6" [] OTHER -> "7"
PageLabel(i) == <<"P", "a", "g", "e", " ", Digit(i)>>

\* " ".join(texts)
RECURSIVE JoinWithSpace(_)
JoinWithSpace(texts) ==
    IF texts = <<>> THEN <<>>
    ELSE IF Len(texts) = 1 THEN texts[1]
    ELSE texts[1] \o <<" ">> \o JoinWithSpace(Tail(texts))

\* the mutant: a prefilter that compares the keyword as it is written
keyword_prefilter_cased(pages, keywords) ==
    IF keywords = <<>> THEN TRUE
    ELSE LET all_text == JoinWithSpace(pages)
         IN  \E k \in 1..Len(keywords) : Contains(keywords[k], all_text)

\* DocumentFilter._keyword_prefilter
keyword_prefilter(pages, keywords) ==
    IF keywords = <<>> THEN TRUE
    ELSE LET all_text == JoinWithSpace([i \in 1..Len(pages) |-> Lower(pages[i])])
         IN  \E k \in 1..Len(keywords) : Contains(Lower(keywords[k]), all_text)

\* sample_text after the loop over doc.pages[:5], from page i on
RECURSIVE SampleFrom(_, _)
SampleFrom(pages, i) ==
    IF i > Len(pages) \/ i > MaxSamplePages THEN <<>>
    ELSE <<"\n", "-", "-", "-", " ">> \o PageLabel(i) \o <<" ", "-", "-", "-", "\n">>
         \o Prefix(pages[i], PageBudget) \o <<"\n">> \o SampleFrom(pages, i + 1)

sample_text(pages) == SampleFrom(pages, 1)

\* The response texts of the oracle are sequences of tokens: a code fence,
\* a newline, a space, a word, or a whole JSON value.
\*   "{T}"  {"is_relevant": true,  "reason": "r", "confidence": 0.9}
\*   "{F}"  {"is_relevant": false, "reason": "r", "confidence": 0.9}
\*   "{}"   an object without keys
\*   "[]"   a JSON value that is not an object
\* the token for three backquotes
Fence == "<fence>"
JsonObjects == {"{T}", "{F}", "{}"}
\*   "[A]", "[A,ab]", ...  lists of the items named below
JsonLists == {"[]", "[A]", "[A,ab]", "[ab,A]", "[a_]", "[{}]", "[A,7]"}
JsonValues == JsonObjects \cup JsonLists

\* what generate() can do for is_relevant: raise once the retries are
\* exhausted, or return a response text
R_True == <<"{T}">>
R_False == <<"{F}">>
R_Empty == <<"{}">>
R_Fenced == <<Fence, "json", "\n", "{F}", "\n", Fence>>
R_FenceOpen == <<Fence, "\n", "{F}">>
R_FenceNoNewline == <<Fence, "{F}", Fence>>
R_Prose == <<"yes", " ", "{T}">>
R_List == <<"[]">>

FilterResponses ==
    {R_True, R_False, R_Empty, R_Fenced, R_FenceOpen, R_FenceNoNewline, R_Prose, R_List}

FilterOutcomes ==
    {[kind |-> "raise", text |-> <<>>]}
        \cup {[kind |-> "text", text |-> r] : r \in FilterResponses}

\* The clean-up of the response: strip; if it starts with a fence, drop the
\* first line (an IndexError when there is none) and what follows the last
\* fence; strip.  <<>> for the error, <<text>> otherwise.
clean_response(response) ==
    LET r1 == Strip(response)
    IN  IF r1 # <<>> /\ r1[1] = Fence
        THEN LET nl == {i \in 1..Len(r1) : r1[i] = "\n"}
             IN  IF nl = {} THEN None
                 ELSE LET r2 == SubSeq(r1, SetMin(nl) + 1, Len(r1))
                          fs == {i \in 1..Len(r2) : r2[i] = Fence}
                          r3 == IF fs = {} THEN r2 ELSE SubSeq(r2, 1, SetMax(fs) - 1)
                      IN  Some(Strip(r3))
        ELSE Some(Strip(r1))

\* json.loads: <<>> for a JSONDecodeError, <<value>> otherwise
json_loads(text) ==
    IF Len(text) = 1 /\ text[1] \in JsonValues THEN Some(text[1]) ELSE None

\* result.get("is_relevant", True)
get_is_relevant(obj) == obj # "{F}"

\* result.get("reason", "")
get_reason(obj) == IF obj = "{}" THEN "" ELSE "r"

\* the mutant: a filter that fails closed
FallbackVerdictClosed ==
    [is_relevant |-> FALSE, reason |-> "Keyword match found (LLM filtering failed)"]

\* except Exception: return True, "Keyword match found (LLM filtering failed)"
FallbackVerdict ==
    [is_relevant |-> TRUE, reason |-> "Keyword match found (LLM filtering failed)"]

\* the try block of is_relevant on what generate() did
judge(outcome) ==
    IF outcome.kind = "raise" THEN FallbackVerdict
    ELSE LET cleaned == clean_response(outcome.text)
         IN  IF cleaned = None THEN FallbackVerdict
             ELSE LET result == json_loads(cleaned[1])
                  IN  IF result = None THEN FallbackVerdict
                      ELSE IF result[1] \notin JsonObjects THEN FallbackVerdict
                      ELSE [is_relevant |-> get_is_relevant(result[1]),
                            reason |-> get_reason(result[1])]

\* DocumentFilter.is_relevant(doc), where generate() does `outcome` if it is
\* called: the verdict, what the oracle call did ("none" when it was not
\* made) with its response, and whether is_relevant raised
is_relevant(pages, keywords, outcome) ==
    IF ~keyword_prefilter(pages, keywords)
    THEN [is_relevant |-> FALSE,
          reason |-> "No display-related keywords found in document",
          oracle |-> "none", response |-> <<>>, raised |-> FALSE]
    ELSE IF Len(Strip(sample_text(pages))) < MinSampleLen
    THEN [is_relevant |-> FALSE,
          reason |-> "Document has insufficient text content",
          oracle |-> "none", response |-> <<>>, raised |-> FALSE]
    ELSE judge(outcome)
            @@ [oracle |-> IF outcome.kind = "raise" THEN "raised" ELSE "ok",
                response |-> outcome.text, raised |-> FALSE]

NoVerdict ==
    [is_relevant |-> TRUE, reason |-> "", oracle |-> "none", response |-> <<>>,
     raised |-> FALSE]

FilterInit ==
    /\ doc_pages \in SeqsUpTo(FilterTexts, MaxPages)
    /\ filter_keywords \in KeywordLists
    /\ fres = NoVerdict
    /\ fpc = "start"

\* is_relevant, reason = doc_filter.is_relevant(doc)
IsRelevant ==
    /\ fpc = "start"
    /\ \E outcome \in FilterOutcomes :
           fres' = is_relevant(doc_pages, filter_keywords, outcome)
    /\ fpc' = "done"
    /\ UNCHANGED <<doc_pages, filter_keywords>>
    /\ UNCHANGED <<mvars, tvars, evars, gvars, pvars, cvars, wvars, svars>>

FilterNext == IsRelevant

-----------------------------------------------------------------------------
(* Spec Extractor: SpecExtractor.extract_specs_from_page / extract_from_document *)

\* The items of the oracle's lists.  A JSON object is a record of the keys it
\* has; confidences are in units of 1/3000.
\*   {"spec_name": "A", "value": "1500:1", "unit": "", "condition": "25C",
\*    "confidence": 0.95, "source_text": "Contrast Ratio: 1500:1"}
Item_A ==
    [spec_name |-> <<"A">>, value |-> "1500:1", unit |-> "", condition |-> "25C",
     confidence |-> 2850, source_text |-> T_EN]
\*   {"spec_name": "ab", "value": "2", "source_text": "Kontrast"}
Item_ab ==
    [spec_name |-> <<"a", "b">>, value |-> "2", source_text |-> T_ShortDE]
\*   {"spec_name": "a ", "value": "3", "unit": "mm", "confidence": 1.5}
Item_a_ ==
    [spec_name |-> <<"a", " ">>, value |-> "3", unit |-> "mm", confidence |-> 4500]
\*   {}
Item_Empty == [json_object |-> TRUE]
\*   7: an item that is not an object
Item_7 == [json_number |-> 7]

\* json.loads of a list
JsonList(tok) ==
    CASE tok = "[A]" -> <<Item_A>>
      [] tok = "[A,ab]" -> <<Item_A, Item_ab>>
      [] tok = "[ab,A]" -> <<Item_ab, Item_A>>
      [] tok = "[a_]" -> <<Item_a_>>
      [] tok = "[{}]" -> <<Item_Empty>>
      [] tok = "[A,7]" -> <<Item_A, Item_7>>
      [] OTHER -> <<>>

\* isinstance(specs_data, list)
IsList(tok) == tok \in JsonLists

\* whether item.get exists: the item is a dict
IsObject(item) == "json_number" \notin DOMAIN item

\* item.get(key, default)
Get(item, key, default) == IF key \in DOMAIN item THEN item[key] ELSE default

\* what generate() can do for extract_specs_from_page
X_FencedList == <<Fence, "json", "\n", "[A,ab]", "\n", Fence>>
X_FenceNoNewline == <<Fence, "[A]", Fence>>
X_Prose == <<"specs", " ", "[A]">>

ExtractResponses ==
    {<<"[]">>, <<"[A]">>, <<"[A,ab]">>, <<"[ab,A]">>, <<"[a_]">>, <<"[{}]">>,
     <<"[A,7]">>, <<"{T}">>, X_FencedList, X_FenceNoNewline, X_Prose}

ExtractOutcomes ==
    {[kind |-> "raise", text |-> <<>>]}
        \cup {[kind |-> "text", text |-> r] : r \in ExtractResponses}

\* the note of _find_original_snippet, as a text of one token
SeeOriginal == <<"[See original document for source text]">>

\* the mutant: the note, whatever the snippet
find_original_snippet_note(original_text, translated_snippet) == SeeOriginal

\* SpecExtractor._find_original_snippet
find_original_snippet(original_text, translated_snippet) ==
    IF Contains(translated_snippet, original_text) THEN translated_snippet
    ELSE SeeOriginal

\* the mutant: one SpecReference for all the specs of a page
RefIdShared(first_ref, i) == first_ref

\* the identity of the SpecReference constructed in iteration i of the loop
RefId(first_ref, i) == first_ref + i - 1

\* one iteration of the loop over specs_data: the ExtractedSpec of item i
MakeSpec(item, i, page_text, original_text, page_label, file_name, first_ref) ==
    LET source_text == Get(item, "source_text", <<>>)
        ref == [id |-> RefId(first_ref, i),
                source_file |-> file_name,
                page_label |-> page_label,
                original_text |->
                    IF original_text # <<>> /\ original_text # page_text
                    THEN find_original_snippet(original_text, source_text)
                    ELSE source_text,
                translated_text |-> source_text,
                confidence |-> Get(item, "confidence", 0)]
    IN  [id |-> ref.id,
         spec_name |-> Get(item, "spec_name", <<>>),
         value |-> Get(item, "value", ""),
         unit |-> Get(item, "unit", ""),
         condition |-> Get(item, "condition", ""),
         confidence |-> Get(item, "confidence", 0),
         reference |-> ref]

\* the mutant: only the JSONDecodeError handler
CaughtJsonOnly(exc) == exc = "JSONDecodeError"

\* except json.JSONDecodeError / except Exception: every exception is caught
Caught(exc) == TRUE

\* the result of a page whose try block ended with the exception exc after
\* the loop had constructed `refs` SpecReferences
PageFailure(exc, oracle, response, refs) ==
    [specs |-> <<>>, oracle |-> oracle, response |-> response, error |-> exc,
     raised |-> ~Caught(exc), refs |-> refs]

\* the iterations of `for item in specs_data` completed before item.get
\* raises AttributeError on an item that is not an object
ItemsBeforeFailure(items) ==
    SetMin({i \in 1..Len(items) : ~IsObject(items[i])}) - 1

\* SpecExtractor.extract_specs_from_page, where generate() does `outcome` if
\* it is called and first_ref SpecReferences exist already: the returned
\* specs, what the oracle call did, the exception of the try block ("" for
\* none), whether the method raised, and the SpecReferences it constructed
extract_specs_from_page(page_text, original_text, page_label, file_name, outcome, first_ref) ==
    IF Strip(page_text) = <<>>
    THEN [specs |-> <<>>, oracle |-> "none", response |-> <<>>, error |-> "",
          raised |-> FALSE, refs |-> 0]
    ELSE IF outcome.kind = "raise"
    THEN PageFailure("OracleError", "raised", <<>>, 0)
    ELSE LET cleaned == clean_response(outcome.text)
         IN  IF cleaned = None THEN PageFailure("IndexError", "ok", outcome.text, 0)
             ELSE LET specs_data == json_loads(cleaned[1])
                  IN  IF specs_data = None
                      THEN PageFailure("JSONDecodeError", "ok", outcome.text, 0)
                      ELSE IF ~IsList(specs_data[1])
                      THEN [specs |-> <<>>, oracle |-> "ok", response |-> outcome.text,
                            error |-> "", raised |-> FALSE, refs |-> 0]
                      ELSE LET items == JsonList(specs_data[1])
                           IN  IF \E i \in 1..Len(items) : ~IsObject(items[i])
                               THEN PageFailure("AttributeError", "ok", outcome.text,
                                                ItemsBeforeFailure(items))
                               ELSE [specs |-> [i \in 1..Len(items) |->
                                                   MakeSpec(items[i], i, page_text,
                                                            original_text, page_label,
                                                            file_name, first_ref)],
                                     oracle |-> "ok", response |-> outcome.text,
                                     error |-> "", raised |-> FALSE,
                                     refs |-> Len(items)]

\* the pages handed to the extractor: a blank page, an English page (text and
\* original_text equal), a translated page, a page never translated
ExtractPages ==
    {[text |-> T_Blank, original_text |-> T_Blank],
     [text |-> T_EN, original_text |-> T_EN],
     [text |-> T_EN, original_text |-> T_DE],
     [text |-> T_EN, original_text |-> <<>>]}

FileNames == {"a.pdf", "b.pptx"}

ExtractorInit ==
    /\ e_file \in FileNames
    /\ e_pages \in SeqsUpTo(ExtractPages, MaxExtractPages)
    /\ page_results = <<>>
    /\ all_specs = <<>>
    /\ next_ref = 0
    /\ epc = "pages"

\* one iteration of the loop of extract_from_document: the page is handed to
\* extract_specs_from_page and its specs are appended; a raise ends the loop
ExtractPage ==
    /\ epc = "pages"
    /\ Len(page_results) < Len(e_pages)
    /\ LET n == Len(page_results) + 1 IN
       \E outcome \in ExtractOutcomes :
         LET r == extract_specs_from_page(e_pages[n].text, e_pages[n].original_text,
                                          PageLabel(n), e_file, outcome, next_ref + 1)
         IN  /\ page_results' = Append(page_results, r)
             /\ all_specs' = IF r.raised THEN all_specs ELSE all_specs \o r.specs
             /\ next_ref' = next_ref + r.refs
             /\ epc' = IF r.raised THEN "aborted" ELSE "pages"
    /\ UNCHANGED <<e_file, e_pages>>
    /\ UNCHANGED <<mvars, tvars, fvars, gvars, pvars, cvars, wvars, svars>>

\* the end of the loop: return all_specs
ExtractReturn ==
    /\ epc = "pages"
    /\ Len(page_results) = Len(e_pages)
    /\ epc' = "done"
    /\ UNCHANGED <<e_file, e_pages, page_results, all_specs, next_ref>>
    /\ UNCHANGED <<mvars, tvars, fvars, gvars, pvars, cvars, wvars, svars>>

ExtractorNext == ExtractPage \/ ExtractReturn

-----------------------------------------------------------------------------
(* Oracle client: GeminiClient.generate, analyzer/gemini_client.py *)

\* gemini.retry_delay_seconds
RetryDelays == {1, 2}

\* what one generate_content call can do: raise, return a response whose
\* text is None (response.text.strip() raises AttributeError), return a text
AttemptOutcomes ==
    {[kind |-> "raise", text |-> <<>>],
     [kind |-> "no_text", text |-> <<>>],
     [kind |-> "text", text |-> <<" ", "{T}", "\n">>],
     [kind |-> "text", text |-> <<"[A]">>]}

\* the exception of a failed attempt: its class and the attempt that raised it
AttemptError(outcome, k) ==
    [class |-> IF outcome.kind = "raise" THEN "APIError" ELSE "AttributeError",
     attempt |-> k]

\* `raise last_error` with last_error = None: raise of a non-exception
RaiseNone == [class |-> "TypeError", attempt |-> 0]

\* wait_time = self.retry_delay * attempt
WaitTime(delay, k) == delay * k

GenerateInit ==
    /\ max_retries \in 0..MaxRetries
    /\ retry_delay \in RetryDelays
    /\ attempt = 1
    /\ last_error = None
    /\ g_errors = <<>>
    /\ g_sleeps = <<>>
    /\ g_out = [kind |-> "running", value |-> <<>>]

\* an iteration of the loop whose generate_content call succeeds:
\* return response.text.strip()
AttemptSucceeds ==
    /\ g_out.kind = "running"
    /\ attempt <= max_retries
    /\ \E outcome \in AttemptOutcomes :
         /\ outcome.kind = "text"
         /\ g_out' = [kind |-> "return", value |-> Strip(outcome.text)]
         /\ g_errors' = Append(g_errors, [class |-> "", attempt |-> attempt])
    /\ UNCHANGED <<max_retries, retry_delay, attempt, last_error, g_sleeps>>
    /\ UNCHANGED <<mvars, tvars, fvars, evars, pvars, cvars, wvars, svars>>

\* an iteration of the loop whose try block raises: last_error = e, and a
\* sleep if this was not the last attempt
AttemptFails ==
    /\ g_out.kind = "running"
    /\ attempt <= max_retries
    /\ \E outcome \in AttemptOutcomes :
         /\ outcome.kind # "text"
         /\ last_error' = Some(AttemptError(outcome, attempt))
         /\ g_errors' = Append(g_errors, AttemptError(outcome, attempt))
    /\ g_sleeps' = IF attempt < max_retries
                   THEN Append(g_sleeps, WaitTime(retry_delay, attempt))
                   ELSE g_sleeps
    /\ attempt' = attempt + 1
    /\ UNCHANGED <<max_retries, retry_delay, g_out>>
    /\ UNCHANGED <<mvars, tvars, fvars, evars, pvars, cvars, wvars, svars>>

\* after the loop: raise last_error
RaiseLastError ==
    /\ g_out.kind = "running"
    /\ attempt > max_retries
    /\ g_out' = [kind |-> "raise",
                 value |-> IF last_error = None THEN RaiseNone ELSE last_error[1]]
    /\ UNCHANGED <<max_retries, retry_delay, attempt, last_error, g_errors, g_sleeps>>
    /\ UNCHANGED <<mvars, tvars, fvars, evars, pvars, cvars, wvars, svars>>

GenerateNext == AttemptSucceeds \/ AttemptFails \/ RaiseLastError

-----------------------------------------------------------------------------
(* Pipeline orchestrator: main(), rfq_analyzer.py lines 167-235 *)

\* a German sheet of 53 characters and its English translation
T_DESheet == T_DE \o <<";", " ">> \o T_Digits
T_ENSheet == T_EN \o <<";", " ">> \o T_Digits

\* file names by position in the folder
DocName(d) == IF d = 1 THEN "d1.pdf" ELSE IF d = 2 THEN "d2.pdf" ELSE "d3.pdf"

\* a ParsedDocument of one page as the parsers return it
NewDocument(d, text) ==
    [file_name |-> DocName(d),
     pages |-> <<[text |-> text, language |-> "en",
                  text_translated |-> <<>>, original_text |-> <<>>]>>,
     is_relevant |-> TRUE,
     relevance_reason |-> ""]

\* parser.parse_folder(input_folder): at least one document
DocumentLists ==
    {[d \in 1..Len(ts) |-> NewDocument(d, ts[d])] :
        ts \in SeqsUpTo({T_DESheet, T_ENSheet}, MaxDocs) \ {<<>>}}

\* config.get("filter_keywords", [])
PipelineKeywords == {<<>>, <<K_Glass>>}

\* the templates of the runs: two fields of different names, two of one name
PipelineTemplates ==
    {<<[row |-> 2, spec_name |-> <<"a">>], [row |-> 3, spec_name |-> <<"A", "b">>]>>,
     <<[row |-> 2, spec_name |-> <<"a">>], [row |-> 3, spec_name |-> <<"a">>]>>}

\* what the oracle does in the three stages of a run
PipelineTranslations ==
    {[kind |-> "raise", text |-> <<>>],
     [kind |-> "text", text |-> <<" ">> \o T_ENSheet \o <<"\n">>]}
PipelineVerdicts ==
    {[kind |-> "raise", text |-> <<>>],
     [kind |-> "text", text |-> R_True],
     [kind |-> "text", text |-> R_False]}
PipelineExtractions ==
    {[kind |-> "raise", text |-> <<>>],
     [kind |-> "text", text |-> <<"[A]">>],
     [kind |-> "text", text |-> <<"[A,ab]">>],
     [kind |-> "text", text |-> <<"[a_]">>]}

PipelineInit ==
    /\ documents \in DocumentLists
    /\ relevant_docs = <<>>
    /\ p_doc = 1
    /\ p_page = 1
    /\ p_events = <<>>
    /\ ppc = "translate"
    /\ cache_enabled \in BOOLEAN
    /\ cache = << >>
    /\ filter_keywords \in PipelineKeywords
    /\ next_ref = 0

\* the position after page p_page of document p_doc in a loop over the pages
\* of the documents in `docs` (indices into documents); `done` is the phase
\* after the loop
NextPosition(docs, k, done) ==
    IF p_page < Len(documents[docs[k]].pages)
    THEN [k |-> k, page |-> p_page + 1, pc |-> ppc]
    ELSE IF k < Len(docs)
    THEN [k |-> k + 1, page |-> 1, pc |-> ppc]
    ELSE [k |-> 1, page |-> 1, pc |-> done]

AllDocs == [d \in 1..Len(documents) |-> d]

\* for doc in documents: translator.translate_document(doc) -- one page
TranslateDocumentPage ==
    /\ ppc = "translate"
    /\ \E outcome \in PipelineTranslations :
         LET r == translate_page(documents[p_doc].pages[p_page], outcome, "ok")
             pos == NextPosition(AllDocs, p_doc, "filter")
         IN  /\ documents' = [documents EXCEPT ![p_doc].pages[p_page] = r.page]
             /\ cache' = r.cache
             /\ p_events' = Append(p_events, <<"translate", p_doc>>)
             /\ p_doc' = pos.k
             /\ p_page' = pos.page
             /\ ppc' = pos.pc
    /\ UNCHANGED <<relevant_docs, cache_enabled, filter_keywords, next_ref>>
    /\ UNCHANGED <<decoded_text, page, calls, tcall, pcall>>
    /\ UNCHANGED <<doc_pages, fres, fpc>>
    /\ UNCHANGED <<e_file, e_pages, page_results, all_specs, epc>>
    /\ UNCHANGED <<mvars, gvars, cvars, wvars, svars>>

\* the mutant: every document is kept for extraction
AppendAlways(docs, d, relevant) == Append(docs, d)

\* if is_relevant: relevant_docs.append(doc)
AppendIfRelevant(docs, d, relevant) == IF relevant THEN Append(docs, d) ELSE docs

\* for doc in documents: is_relevant, reason = doc_filter.is_relevant(doc);
\* after the last document: sys.exit(0) if none is relevant
FilterDocument ==
    /\ ppc = "filter"
    /\ \E outcome \in PipelineVerdicts :
         LET texts == [i \in 1..Len(documents[p_doc].pages) |->
                          documents[p_doc].pages[i].text]
             v == is_relevant(texts, filter_keywords, outcome)
             rel == AppendIfRelevant(relevant_docs, p_doc, v.is_relevant)
         IN  /\ documents' = [documents EXCEPT ![p_doc].is_relevant = v.is_relevant,
                                               ![p_doc].relevance_reason = v.reason]
             /\ relevant_docs' = rel
             /\ p_events' = Append(p_events, <<"filter", p_doc>>)
             /\ IF p_doc < Len(documents)
                THEN /\ p_doc' = p_doc + 1
                     /\ ppc' = "filter"
                ELSE /\ p_doc' = 1
                     /\ ppc' = IF rel = <<>> THEN "exit" ELSE "read_template"
    /\ UNCHANGED <<p_page, cache_enabled, cache, filter_keywords, next_ref>>
    /\ UNCHANGED <<decoded_text, page, calls, tcall, pcall>>
    /\ UNCHANGED <<doc_pages, fres, fpc>>
    /\ UNCHANGED <<e_file, e_pages, page_results, all_specs, epc>>
    /\ UNCHANGED <<mvars, gvars, cvars, wvars, svars>>

\* template_fields = template_mapper.read_template()
ReadTemplate ==
    /\ ppc = "read_template"
    /\ template_fields' \in PipelineTemplates
    /\ ppc' = "extract"
    /\ UNCHANGED <<documents, relevant_docs, p_doc, p_page, p_events>>
    /\ UNCHANGED <<extracted_specs, candidates, tentative, mappings, unmatched, mpc>>
    /\ UNCHANGED <<tvars, fvars, evars, gvars, cvars, wvars, svars>>

\* for doc in relevant_docs: extract_from_document(doc, template_fields) --
\* one page; p_doc is the position in relevant_docs
ExtractDocumentPage ==
    /\ ppc = "extract"
    /\ \E outcome \in PipelineExtractions :
         LET d == relevant_docs[p_doc]
             pg == documents[d].pages[p_page]
             r == extract_specs_from_page(pg.text, pg.original_text, PageLabel(p_page),
                                          documents[d].file_name, outcome, next_ref + 1)
             pos == NextPosition(relevant_docs, p_doc, "map")
         IN  /\ extracted_specs' = extracted_specs \o r.specs
             /\ next_ref' = next_ref + r.refs
             /\ p_events' = Append(p_events, <<"extract", d>>)
             /\ p_doc' = pos.k
             /\ p_page' = pos.page
             /\ ppc' = pos.pc
    /\ UNCHANGED <<documents, relevant_docs>>
    /\ UNCHANGED <<template_fields, candidates, tentative, mappings, unmatched, mpc>>
    /\ UNCHANGED <<e_file, e_pages, page_results, all_specs, epc>>
    /\ UNCHANGED <<tvars, fvars, gvars, cvars, wvars, svars>>

\* mappings = map_specs_to_template(all_extracted_specs, template_fields);
\* unmatched = get_unmatched_specs(all_extracted_specs, mappings)
MapExtractedSpecs ==
    /\ ppc = "map"
    /\ IF extracted_specs = <<>>
       THEN /\ candidates' = <<>>
            /\ tentative' = <<>>
            /\ mappings' = <<>>
       ELSE /\ candidates' = Candidates(extracted_specs, template_fields)
            /\ tentative' = TentativeMappings(extracted_specs, candidates', 1)
            /\ mappings' = DeduplicateAll(tentative')
    /\ unmatched' = get_unmatched_specs(extracted_specs, mappings')
    /\ p_events' = Append(p_events, <<"map", 0>>)
    /\ ppc' = "done"
    /\ UNCHANGED <<documents, relevant_docs, p_doc, p_page>>
    /\ UNCHANGED <<template_fields, extracted_specs, mpc>>
    /\ UNCHANGED <<tvars, fvars, evars, gvars, cvars, wvars, svars>>

PipelineNext ==
    \/ TranslateDocumentPage
    \/ FilterDocument
    \/ ReadTemplate
    \/ ExtractDocumentPage
    \/ MapExtractedSpecs

-----------------------------------------------------------------------------
(* Parallel translation: several threads in GeminiTranslator.translate_text  *)
(* on the same text, sharing the cache file of its key.  The steps of a     *)
(* caller are the system calls of its cache read (exists; open and fstat;   *)
(* each read), the oracle call, and the two system calls of Path.write_text: *)
(* open(mode="w"), which creates or truncates the file, and the write of    *)
(* the data at the descriptor's offset 0.                                   *)

Callers == 1..MaxCallers

\* the text all callers translate
ParallelText == T_DE

Quote == "\""

KeyOriginal ==
    <<"o", "r", "i", "g", "i", "n", "a", "l", "_", "t", "e", "x", "t">>

KeyTranslated ==
    <<"t", "r", "a", "n", "s", "l", "a", "t", "e", "d", "_", "t", "e", "x", "t">>

\* json.dumps({"original_text": original[:200], "translated_text":
\* translated}, ensure_ascii=False, indent=2), character by character (no
\* text of the model holds a quote, a backslash or a control character, so
\* nothing is escaped)
dumps_entry(original, translated) ==
    <<"{", "\n", " ", " ", Quote>> \o KeyOriginal \o <<Quote, ":", " ", Quote>>
        \o Prefix(original, OriginalPrefixLen)
        \o <<Quote, ",", "\n", " ", " ", Quote>> \o KeyTranslated
        \o <<Quote, ":", " ", Quote>> \o translated
        \o <<Quote, "\n", "}">>

\* the whitespace of JSON
JsonWhitespace == {" ", "\n", "\t", "\r"}

\* the characters a JSON string cannot hold unescaped
JsonControl == {"\n", "\t", "\r", "\\"}

\* json.loads(data).get("translated_text") for data whose values are strings
\* (pieces of dumps_entry results hold no other value): the data is an
\* object of string members, and the value is that of the last member named
\* translated_text; None when json.loads raises or no member has the name
loads_entry(data) ==
    LET n == Len(data)
        q == {i \in 1..n : data[i] = Quote}
        k == Cardinality(q)
        Q(j) == IF j = 0 THEN 0
                ELSE IF j = k + 1 THEN n + 1
                ELSE CHOOSE i \in q : Cardinality({x \in q : x < i}) = j - 1
        between(j) == SubSeq(data, Q(j) + 1, Q(j + 1) - 1)
        outside(j) == SelectSeq(between(j), LAMBDA c : c \notin JsonWhitespace)
        members == k \div 4
        key(m) == between(4 * m - 3)
        value(m) == between(4 * m - 1)
        named == {m \in 1..members : key(m) = KeyTranslated}
    IN  IF /\ k > 0
           /\ k % 4 = 0
           /\ outside(0) = <<"{">>
           /\ \A j \in 1..k :
                 IF j % 2 = 1
                 THEN \A i \in 1..Len(between(j)) : between(j)[i] \notin JsonControl
                 ELSE outside(j) = IF j % 4 = 2 THEN <<":">>
                                    ELSE IF j = k THEN <<"}">>
                                    ELSE <<",">>
           /\ named # {}
        THEN Some(value(SetMax(named)))
        ELSE None

\* write(fd, data) at offset 0 of a file that holds `old`
Overlay(old, data) == data \o SubSeq(old, Len(data) + 1, Len(old))

AbsentFile == [exists |-> FALSE, data |-> <<>>]

\* what the oracle answers to a caller: it raises, or returns an English
\* translation, the German text again, or a blank text
ParallelOutcomes ==
    {[kind |-> "raise", text |-> <<>>],
     [kind |-> "text", text |-> <<" ">> \o T_EN \o <<"\n">>],
     [kind |-> "text", text |-> T_DE],
     [kind |-> "text", text |-> <<" ", "\n">>]}

\* FileIO.readall, which read_text ends in: the buffer is one byte longer
\* than the size fstat reported, SMALLCHUNK bytes when that is 0, and grows
\* when it is full: by its size and 256, by an eighth once it is larger than
\* 65536 bytes, and by SMALLCHUNK at least
SmallChunk == 8192

first_buffersize(size) == IF size > 0 THEN size + 1 ELSE SmallChunk

new_buffersize(currentsize) ==
    LET addend == IF currentsize > 65536
                  THEN currentsize \div 8
                  ELSE 256 + currentsize
    IN  currentsize + (IF addend < SmallChunk THEN SmallChunk ELSE addend)

\* saved: the caller's write_text has completed; bufsize and buf: the buffer
\* of the cache read in progress
NoLocals ==
    [cached |-> None, translated |-> None, result |-> None, saved |-> FALSE,
     bufsize |-> 0, buf |-> <<>>]

\* the entries an earlier run can have left: a translation, or the blank
\* text of a whitespace-only answer
EarlierTranslations == {T_EN, <<>>}

\* the cache folder is empty, or holds the entry an earlier run stored
ParallelInit ==
    /\ \/ /\ shared_file = AbsentFile
          /\ c_stored = {}
       \/ \E t \in EarlierTranslations :
             /\ shared_file = [exists |-> TRUE, data |-> dumps_entry(ParallelText, t)]
             /\ c_stored = {t}
    /\ c_pc = [th \in Callers |-> "load"]
    /\ c_local = [th \in Callers |-> NoLocals]

\* the locals and position of a caller whose _load_from_cache returned
\* `cached`: if cached: return cached
AfterLoad(th, cached) ==
    IF Truthy(cached)
    THEN /\ c_local' = [c_local EXCEPT ![th].cached = cached,
                                       ![th].result = cached,
                                       ![th].bufsize = 0,
                                       ![th].buf = <<>>]
         /\ c_pc' = [c_pc EXCEPT ![th] = "done"]
    ELSE /\ c_local' = [c_local EXCEPT ![th].cached = cached,
                                       ![th].bufsize = 0,
                                       ![th].buf = <<>>]
         /\ c_pc' = [c_pc EXCEPT ![th] = "generate"]

\* cached = self._load_from_cache(cache_key), up to cache_file.exists()
LoadFromCache ==
    \E th \in Callers :
        /\ c_pc[th] = "load"
        /\ IF cache_enabled /\ shared_file.exists
           THEN /\ c_pc' = [c_pc EXCEPT ![th] = "read_open"]
                /\ UNCHANGED c_local
           ELSE AfterLoad(th, None)
        /\ UNCHANGED <<shared_file, c_stored>>
        /\ UNCHANGED <<mvars, tvars, fvars, evars, gvars, pvars, wvars, svars>>

\* _load_from_cache, cache_file.read_text: the file is opened and its size
\* taken
OpenForRead ==
    \E th \in Callers :
        /\ c_pc[th] = "read_open"
        /\ c_local' = [c_local EXCEPT
                          ![th].bufsize = first_buffersize(Len(shared_file.data)),
                          ![th].buf = <<>>]
        /\ c_pc' = [c_pc EXCEPT ![th] = "read"]
        /\ UNCHANGED <<shared_file, c_stored>>
        /\ UNCHANGED <<mvars, tvars, fvars, evars, gvars, pvars, wvars, svars>>

\* _load_from_cache, cache_file.read_text: one read at the descriptor's
\* offset, of what the buffer has room for; the read that returns nothing
\* ends the loop, and the text read is parsed
ReadCacheFile ==
    \E th \in Callers :
        /\ c_pc[th] = "read"
        /\ LET have == Len(c_local[th].buf)
               bufsize == IF have >= c_local[th].bufsize
                          THEN new_buffersize(have)
                          ELSE c_local[th].bufsize
               last == IF Len(shared_file.data) < bufsize
                       THEN Len(shared_file.data) ELSE bufsize
               got == SubSeq(shared_file.data, have + 1, last)
           IN  IF got = <<>>
               THEN AfterLoad(th, loads_entry(c_local[th].buf))
               ELSE /\ c_local' = [c_local EXCEPT ![th].bufsize = bufsize,
                                                  ![th].buf = c_local[th].buf \o got]
                    /\ UNCHANGED c_pc
        /\ UNCHANGED <<shared_file, c_stored>>
        /\ UNCHANGED <<mvars, tvars, fvars, evars, gvars, pvars, wvars, svars>>

\* response = self.client.models.generate_content(...);
\* translated = response.text.strip(); except Exception: return text
GenerateContent ==
    \E th \in Callers :
        /\ c_pc[th] = "generate"
        /\ \E outcome \in ParallelOutcomes :
             IF outcome.kind = "raise"
             THEN /\ c_local' = [c_local EXCEPT
                                    ![th].result = Some(FailureResult(ParallelText))]
                  /\ c_pc' = [c_pc EXCEPT ![th] = "done"]
             ELSE LET translated == Strip(outcome.text)
                  IN  IF cache_enabled
                      THEN /\ c_local' = [c_local EXCEPT
                                             ![th].translated = Some(translated)]
                           /\ c_pc' = [c_pc EXCEPT ![th] = "open"]
                      ELSE /\ c_local' = [c_local EXCEPT
                                             ![th].translated = Some(translated),
                                             ![th].result = Some(translated)]
                           /\ c_pc' = [c_pc EXCEPT ![th] = "done"]
        /\ UNCHANGED <<shared_file, c_stored>>
        /\ UNCHANGED <<mvars, tvars, fvars, evars, gvars, pvars, wvars, svars>>

\* _save_to_cache, cache_file.write_text: open(mode="w") creates the file
\* or truncates it; an OSError is logged and swallowed
OpenCacheFile ==
    \E th \in Callers :
        /\ c_pc[th] = "open"
        /\ \E open_ok \in BOOLEAN :
             IF open_ok
             THEN /\ shared_file' = [exists |-> TRUE, data |-> <<>>]
                  /\ c_pc' = [c_pc EXCEPT ![th] = "write"]
                  /\ UNCHANGED c_local
             ELSE /\ c_local' = [c_local EXCEPT
                                    ![th].result = c_local[th].translated]
                  /\ c_pc' = [c_pc EXCEPT ![th] = "done"]
                  /\ UNCHANGED shared_file
        /\ UNCHANGED c_stored
        /\ UNCHANGED <<mvars, tvars, fvars, evars, gvars, pvars, wvars, svars>>

\* the characters a write that raises OSError (a full disk, a file size
\* limit) has put into the file before it fails: none, a part of the
\* header, a part that reaches into the translation
PartialWrites == {0, 10, 80}

\* _save_to_cache, cache_file.write_text: the data is written at offset 0
\* and the file closed, or the write raises OSError after a part of the data
\* reached the file, which is logged and swallowed; return translated
WriteCacheFile ==
    \E th \in Callers :
        /\ c_pc[th] = "write"
        /\ LET translated == c_local[th].translated[1]
               data == dumps_entry(ParallelText, translated)
           IN  \E written \in PartialWrites \cup {Len(data)} :
                 /\ written <= Len(data)
                 /\ shared_file' =
                       [exists |-> TRUE,
                        data |-> Overlay(shared_file.data, Prefix(data, written))]
                 /\ IF written = Len(data)
                    THEN /\ c_stored' = c_stored \cup {translated}
                         /\ c_local' = [c_local EXCEPT
                                           ![th].result = Some(translated),
                                           ![th].saved = TRUE]
                    ELSE /\ c_local' = [c_local EXCEPT
                                           ![th].result = Some(translated)]
                         /\ UNCHANGED c_stored
        /\ c_pc' = [c_pc EXCEPT ![th] = "done"]
        /\ UNCHANGED <<mvars, tvars, fvars, evars, gvars, pvars, wvars, svars>>

ParallelNext ==
    \/ LoadFromCache
    \/ OpenForRead
    \/ ReadCacheFile
    \/ GenerateContent
    \/ OpenCacheFile
    \/ WriteCacheFile

-----------------------------------------------------------------------------
(* Template reader: exporter/template_mapper.py *)

\* the labels of a header row
HeaderLabels ==
    {<<"s", "p", "e", "c", "i", "f", "i", "c", "a", "t", "i", "o", "n", " ",
       "t", "y", "p", "e">>,
     <<"s", "p", "e", "c", " ", "t", "y", "p", "e">>,
     <<"i", "t", "e", "m">>,
     <<"s", "p", "e", "c", "i", "f", "i", "c", "a", "t", "i", "o", "n">>}

\* ws.cell(row, 1).value: None for an empty cell, a text, or a number
EmptyCell == [kind |-> "none"]
TextCell(t) == [kind |-> "str", value |-> t]
NumberCell(n) == [kind |-> "int", value |-> n]

\* the cells of column A: empty, "Item", "ITEM " (upper case, a trailing
\* space), "Items", "a", " Ab", a cell of one space, the number 7
CellValues ==
    {EmptyCell,
     TextCell(<<"I", "t", "e", "m">>),
     TextCell(<<"I", "T", "E", "M", " ">>),
     TextCell(<<"I", "t", "e", "m", "s">>),
     TextCell(<<"a">>),
     TextCell(<<" ", "A", "b">>),
     TextCell(<<" ">>),
     NumberCell(7)}

\* str(value)
Str(cell) == IF cell.kind = "int" THEN <<Digit(cell.value)>> ELSE cell.value

\* the mutant: the label compared as it is written
IsHeaderLabelCased(name) == name \in HeaderLabels

\* self.fields[0].spec_name.lower() in ("specification type", ...)
IsHeaderLabel(name) == Lower(name) \in HeaderLabels

\* the loop over range(1, ws.max_row + 1) from row r on: a TemplateField for
\* every row whose cell is not None, its name str(value).strip()
RECURSIVE FieldsFrom(_, _)
FieldsFrom(cells, r) ==
    IF r > Len(cells) THEN <<>>
    ELSE IF cells[r].kind # "none"
    THEN <<[row |-> r, spec_name |-> Strip(Str(cells[r]))]>> \o FieldsFrom(cells, r + 1)
    ELSE FieldsFrom(cells, r + 1)

\* TemplateMapper.read_template: self.fields and self.header_row
read_template(cells) ==
    LET fields == FieldsFrom(cells, 1)
    IN  IF fields # <<>> /\ IsHeaderLabel(fields[1].spec_name)
        THEN [fields |-> Tail(fields), header_row |-> Some(fields[1])]
        ELSE [fields |-> fields, header_row |-> None]

\* the sheets of the runs
Sheets == SeqsUpTo(CellValues, MaxRows)

TemplateInit ==
    /\ ws_cells \in Sheets
    /\ t_fields = <<>>
    /\ header_row = None
    /\ wpc = "start"

\* template_fields = template_mapper.read_template()
ReadTemplateFile ==
    /\ wpc = "start"
    /\ LET r == read_template(ws_cells)
       IN  /\ t_fields' = r.fields
           /\ header_row' = r.header_row
    /\ wpc' = "done"
    /\ UNCHANGED ws_cells
    /\ UNCHANGED <<mvars, tvars, fvars, evars, gvars, pvars, cvars, svars>>

TemplateNext == ReadTemplateFile

-----------------------------------------------------------------------------
(* The whole of main(): the validation of the inputs, the parsing of the   *)
(* folder, the stages of the pipeline above, and the writing of the result *)

\* the key of the shipped configuration
PlaceholderKey == "YOUR_GEMINI_API_KEY_HERE"

ApiKeys == {"", PlaceholderKey, "k"}

KeyNotSet == "Gemini API key is not set"
InputNotFound == "Input folder not found"
TemplateNotFound == "Template file not found"

\* the mutant: only the key is validated
validate_key_only(key, input_ok, template_ok) ==
    IF key = "" \/ key = PlaceholderKey THEN KeyNotSet ELSE "ok"

\* the three checks of main() in their order: the message of the first that
\* fails, or "ok"
validate(key, input_ok, template_ok) ==
    IF key = "" \/ key = PlaceholderKey THEN KeyNotSet
    ELSE IF ~input_ok THEN InputNotFound
    ELSE IF ~template_ok THEN TemplateNotFound
    ELSE "ok"

StartupInit ==
    /\ api_key \in ApiKeys
    /\ input_existed \in BOOLEAN
    /\ input_exists = input_existed
    /\ template_exists \in BOOLEAN
    /\ reported = <<>>
    /\ output_written = FALSE
    /\ documents = <<>>
    /\ relevant_docs = <<>>
    /\ p_doc = 1
    /\ p_page = 1
    /\ p_events = <<>>
    /\ ppc = "startup"
    /\ cache_enabled \in BOOLEAN
    /\ cache = << >>
    /\ filter_keywords \in PipelineKeywords
    /\ next_ref = 0

\* the validation of the key, the input folder and the template: the first
\* failure is logged and ends the run with sys.exit(1); a missing input
\* folder is created empty before the exit
ValidateInputs ==
    /\ ppc = "startup"
    /\ LET v == validate(api_key, input_exists, template_exists)
       IN  IF v = "ok"
           THEN /\ ppc' = "parse"
                /\ UNCHANGED <<reported, input_exists>>
           ELSE /\ ppc' = "exit_1"
                /\ reported' = Append(reported, v)
                /\ input_exists' = (input_exists \/ v = InputNotFound)
    /\ UNCHANGED <<api_key, input_existed, template_exists, output_written>>
    /\ UNCHANGED <<documents, relevant_docs, p_doc, p_page, p_events>>
    /\ UNCHANGED <<mvars, tvars, fvars, evars, gvars, cvars, wvars>>

\* documents = parser.parse_folder(input_folder); sys.exit(0) if there are
\* none
ParseFolder ==
    /\ ppc = "parse"
    /\ documents' \in DocumentLists \cup {<<>>}
    /\ p_events' = Append(p_events, <<"parse", 0>>)
    /\ ppc' = IF documents' = <<>> THEN "exit" ELSE "translate"
    /\ UNCHANGED <<relevant_docs, p_doc, p_page>>
    /\ UNCHANGED <<mvars, tvars, fvars, evars, gvars, cvars, wvars, svars>>

\* output_path = excel_writer.write_results(mappings, unmatched)
WriteResults ==
    /\ ppc = "done"
    /\ output_written' = TRUE
    /\ p_events' = Append(p_events, <<"write", 0>>)
    /\ ppc' = "written"
    /\ UNCHANGED <<api_key, input_existed, input_exists, template_exists, reported>>
    /\ UNCHANGED <<documents, relevant_docs, p_doc, p_page>>
    /\ UNCHANGED <<mvars, tvars, fvars, evars, gvars, cvars, wvars>>

MainNext ==
    \/ ValidateInputs
    \/ ParseFolder
    \/ TranslateDocumentPage
    \/ FilterDocument
    \/ ReadTemplate
    \/ ExtractDocumentPage
    \/ MapExtractedSpecs
    \/ WriteResults

-----------------------------------------------------------------------------
(* Specifications: one per component, the other components at rest *)

MapperIdle ==
    /\ template_fields = <<>>
    /\ extracted_specs = <<>>
    /\ candidates = <<>>
    /\ tentative = <<>>
    /\ mappings = <<>>
    /\ unmatched = <<>>
    /\ mpc = "idle"

TranslatorIdle ==
    /\ cache_enabled = TRUE
    /\ cache = << >>
    /\ decoded_text = <<>>
    /\ page = [text |-> <<>>, language |-> "en",
               text_translated |-> <<>>, original_text |-> <<>>]
    /\ calls = 0
    /\ tcall = NoCall
    /\ pcall = NoPageCall

FilterIdle ==
    /\ doc_pages = <<>>
    /\ filter_keywords = <<>>
    /\ fres = NoVerdict
    /\ fpc = "idle"

ExtractorIdle ==
    /\ e_file = ""
    /\ e_pages = <<>>
    /\ page_results = <<>>
    /\ all_specs = <<>>
    /\ next_ref = 0
    /\ epc = "idle"

GenerateIdle ==
    /\ max_retries = 0
    /\ retry_delay = 0
    /\ attempt = 0
    /\ last_error = None
    /\ g_errors = <<>>
    /\ g_sleeps = <<>>
    /\ g_out = [kind |-> "idle", value |-> <<>>]

PipelineIdle ==
    /\ documents = <<>>
    /\ relevant_docs = <<>>
    /\ p_doc = 0
    /\ p_page = 0
    /\ p_events = <<>>
    /\ ppc = "idle"

ParallelIdle ==
    /\ shared_file = AbsentFile
    /\ c_pc = <<>>
    /\ c_local = <<>>
    /\ c_stored = {}

TemplateIdle ==
    /\ ws_cells = <<>>
    /\ t_fields = <<>>
    /\ header_row = None
    /\ wpc = "idle"

StartupIdle ==
    /\ api_key = "k"
    /\ input_existed = TRUE
    /\ input_exists = TRUE
    /\ template_exists = TRUE
    /\ reported = <<>>
    /\ output_written = FALSE

MapperSpecInit ==
    /\ MapperInit
    /\ TranslatorIdle /\ FilterIdle /\ ExtractorIdle /\ GenerateIdle /\ PipelineIdle
    /\ ParallelIdle /\ TemplateIdle /\ StartupIdle

MapperSpec == MapperSpecInit /\ [][MapperNext]_vars

TranslatorSpecInit ==
    /\ TranslatorInit
    /\ MapperIdle /\ FilterIdle /\ ExtractorIdle /\ GenerateIdle /\ PipelineIdle
    /\ ParallelIdle /\ TemplateIdle /\ StartupIdle

TranslatorSpec == TranslatorSpecInit /\ [][TranslatorNext]_vars

FilterSpecInit ==
    /\ FilterInit
    /\ MapperIdle /\ TranslatorIdle /\ ExtractorIdle /\ GenerateIdle /\ PipelineIdle
    /\ ParallelIdle /\ TemplateIdle /\ StartupIdle

FilterSpec == FilterSpecInit /\ [][FilterNext]_vars

ExtractorSpecInit ==
    /\ ExtractorInit
    /\ MapperIdle /\ TranslatorIdle /\ FilterIdle /\ GenerateIdle /\ PipelineIdle
    /\ ParallelIdle /\ TemplateIdle /\ StartupIdle

ExtractorSpec == ExtractorSpecInit /\ [][ExtractorNext]_vars

GenerateSpecInit ==
    /\ GenerateInit
    /\ MapperIdle /\ TranslatorIdle /\ FilterIdle /\ ExtractorIdle /\ PipelineIdle
    /\ ParallelIdle /\ TemplateIdle /\ StartupIdle

GenerateSpec == GenerateSpecInit /\ [][GenerateNext]_vars

\* a run of main(): the variables of the stages that main() does not use
\* stay at rest
PipelineSpecInit ==
    /\ PipelineInit
    /\ MapperIdle
    /\ decoded_text = <<>>
    /\ page = [text |-> <<>>, language |-> "en",
               text_translated |-> <<>>, original_text |-> <<>>]
    /\ calls = 0
    /\ tcall = NoCall
    /\ pcall = NoPageCall
    /\ doc_pages = <<>>
    /\ fres = NoVerdict
    /\ fpc = "idle"
    /\ e_file = ""
    /\ e_pages = <<>>
    /\ page_results = <<>>
    /\ all_specs = <<>>
    /\ epc = "idle"
    /\ GenerateIdle
    /\ ParallelIdle /\ TemplateIdle /\ StartupIdle

PipelineSpec == PipelineSpecInit /\ [][PipelineNext]_vars

\* threads of one translator with the cache enabled
ParallelSpecInit ==
    /\ ParallelInit
    /\ MapperIdle /\ TranslatorIdle /\ FilterIdle /\ ExtractorIdle
    /\ GenerateIdle /\ PipelineIdle /\ TemplateIdle /\ StartupIdle

ParallelSpec == ParallelSpecInit /\ [][ParallelNext]_vars

TemplateSpecInit ==
    /\ TemplateInit
    /\ MapperIdle /\ TranslatorIdle /\ FilterIdle /\ ExtractorIdle
    /\ GenerateIdle /\ PipelineIdle /\ ParallelIdle /\ StartupIdle

TemplateSpec == TemplateSpecInit /\ [][TemplateNext]_vars

\* a run of main() from its first line
MainSpecInit ==
    /\ StartupInit
    /\ MapperIdle
    /\ decoded_text = <<>>
    /\ page = [text |-> <<>>, language |-> "en",
               text_translated |-> <<>>, original_text |-> <<>>]
    /\ calls = 0
    /\ tcall = NoCall
    /\ pcall = NoPageCall
    /\ doc_pages = <<>>
    /\ fres = NoVerdict
    /\ fpc = "idle"
    /\ e_file = ""
    /\ e_pages = <<>>
    /\ page_results = <<>>
    /\ all_specs = <<>>
    /\ epc = "idle"
    /\ GenerateIdle /\ ParallelIdle /\ TemplateIdle

MainSpec == MainSpecInit /\ [][MainNext]_vars

-----------------------------------------------------------------------------
(* Properties of the Field Mapper *)

\* the mapper has returned
Mapped == mpc \in {"mapped", "done"}

\* the positions of a list
Dom(seq) == 1..Len(seq)

\* the mappings of a list ms that target row r
MappingsTo(ms, r) == {k \in Dom(ms) : ms[k].template_field.row = r}

\* the tentative mappings made for the spec at position i of the input
TentativeOf(i) == {t \in Dom(tentative) : tentative[t].extracted_spec.id = i}

\* C1: the list map_specs_to_template returns holds at most one MappingResult
\* per template row, and exactly one for every field that some spec's
\* candidate targets with a confidence above 0.3.
C1_OneMappingPerField ==
    Mapped =>
        /\ \A i, j \in Dom(mappings) :
               mappings[i].template_field.row = mappings[j].template_field.row => i = j
        /\ \A f \in Dom(template_fields) :
               (\E i \in Dom(extracted_specs) :
                    /\ candidates[i].match = <<template_fields[f]>>
                    /\ candidates[i].confidence > MinMatchConfidence)
               => Cardinality(MappingsTo(mappings, template_fields[f].row)) = 1

\* two specs target the same row and one mapping for that row is returned
C1_Witness ==
    /\ Mapped
    /\ \E s, t \in Dom(tentative) :
           /\ s # t
           /\ tentative[s].template_field.row = tentative[t].template_field.row
           /\ tentative[s].match_confidence # tentative[t].match_confidence
           /\ Cardinality(MappingsTo(mappings, tentative[s].template_field.row)) = 1
    /\ Len(mappings) = 1

\* C2: the mapping that survives for a field is a tentative mapping to that
\* field of the greatest match confidence, and among those of the greatest
\* confidence the one whose spec comes first in the input.
C2_BestSurvives ==
    Mapped =>
        \A k \in Dom(mappings) :
            LET m == mappings[k]
                cands == MappingsTo(tentative, m.template_field.row)
            IN  /\ \E c \in cands : tentative[c] = m
                /\ \A c \in cands :
                       /\ tentative[c].match_confidence <= m.match_confidence
                       /\ tentative[c].match_confidence = m.match_confidence
                              => m.extracted_spec.id <= tentative[c].extracted_spec.id

\* two specs tie for the greatest confidence of a row, and the earlier one
\* is returned
C2_Witness ==
    /\ Mapped
    /\ Len(tentative) = 2
    /\ tentative[1].template_field.row = tentative[2].template_field.row
    /\ tentative[1].match_confidence = tentative[2].match_confidence
    /\ tentative[1].match_confidence < ExactConfidence
    /\ tentative[1].extracted_spec.spec_name # tentative[2].extracted_spec.spec_name
    /\ Len(mappings) = 1
    /\ mappings[1].extracted_spec.id = 1

\* C3: a spec whose name equals a field's name after lower-casing and
\* trimming gets a tentative mapping to the first such field of the template
\* with match confidence 1.0, whatever its extraction confidence and
\* whatever other fields partially match its name.
C3_ExactMatchFirstField ==
    Mapped =>
        \A i \in Dom(extracted_specs) :
            LET s == extracted_specs[i]
                exact == {f \in Dom(template_fields) :
                             Strip(Lower(s.spec_name))
                                 = Strip(Lower(template_fields[f].spec_name))}
            IN  exact # {} =>
                    /\ TentativeOf(i) # {}
                    /\ \A t \in TentativeOf(i) :
                           /\ tentative[t].template_field = template_fields[SetMin(exact)]
                           /\ tentative[t].match_confidence = ExactConfidence

\* a spec that equals the second field only after lower-casing or trimming,
\* while the first field partially matches it with a different candidate
\* confidence
C3_Witness ==
    /\ Mapped
    /\ Len(template_fields) >= 2
    /\ \E i \in Dom(extracted_specs) :
           LET s == extracted_specs[i] IN
           /\ s.spec_name # template_fields[2].spec_name
           /\ Strip(Lower(s.spec_name)) = Strip(Lower(template_fields[2].spec_name))
           /\ Strip(Lower(s.spec_name)) # Strip(Lower(template_fields[1].spec_name))
           /\ Contains(Lower(template_fields[1].spec_name), Lower(s.spec_name))
           /\ s.confidence \notin {0, ExactConfidence}
           /\ \E t \in TentativeOf(i) :
                  /\ tentative[t].template_field.row = template_fields[2].row
                  /\ tentative[t].match_confidence = ExactConfidence

\* C4: every returned mapping has a match confidence above 0.3; a spec whose
\* best candidate confidence is 0.3 or lower gets no tentative mapping, and
\* one whose best candidate confidence is above 0.3 gets one, which is
\* returned unless another spec's mapping to the same field won the
\* deduplication.
C4_ThresholdExclusion ==
    Mapped =>
        /\ \A k \in Dom(mappings) : mappings[k].match_confidence > MinMatchConfidence
        /\ \A i \in Dom(extracted_specs) :
               LET best == candidates[i]
               IN  /\ best.confidence <= MinMatchConfidence => TentativeOf(i) = {}
                   /\ best.confidence > MinMatchConfidence =>
                          /\ Cardinality(TentativeOf(i)) = 1
                          /\ \A t \in TentativeOf(i) :
                                 /\ tentative[t].match_confidence = best.confidence
                                 /\ <<tentative[t].template_field>> = best.match
                                 /\ \/ \E k \in Dom(mappings) : mappings[k] = tentative[t]
                                    \/ \E k \in Dom(mappings) :
                                           /\ mappings[k].template_field.row
                                                  = tentative[t].template_field.row
                                           /\ mappings[k].extracted_spec.id # i
                                           /\ mappings[k].match_confidence
                                                  >= tentative[t].match_confidence

\* one spec whose candidate confidence is exactly 0.3 and is left out, next
\* to one whose candidate confidence is above 0.3 and is returned
C4_Witness ==
    /\ Mapped
    /\ Len(extracted_specs) = 2
    /\ LET b1 == candidates[1]
           b2 == candidates[2]
       IN  /\ b1.match # <<>>
           /\ b1.confidence = MinMatchConfidence
           /\ b2.confidence > MinMatchConfidence
           /\ b2.confidence < ExactConfidence
    /\ Len(mappings) = 1
    /\ mappings[1].extracted_spec.id = 2

\* C5: a spec of E is in get_unmatched_specs(E, M) iff no mapping of M has an
\* underlying spec of the same name up to case; the decision is by name, not
\* by which object was mapped.
C5_UnmatchedByName ==
    mpc = "done" =>
        \A i \in Dom(extracted_specs) :
            (\E u \in Dom(unmatched) : unmatched[u] = extracted_specs[i])
            <=> ~ \E k \in Dom(mappings) :
                      Lower(mappings[k].extracted_spec.spec_name)
                          = Lower(extracted_specs[i].spec_name)

\* a spec that no mapping holds, but whose name is up to case that of a
\* mapped spec, is not reported
C5_Witness ==
    /\ mpc = "done"
    /\ \E i \in Dom(extracted_specs) :
           /\ \A k \in Dom(mappings) : mappings[k].extracted_spec.id # i
           /\ \A u \in Dom(unmatched) : unmatched[u].id # i
           /\ \E k \in Dom(mappings) :
                  /\ mappings[k].extracted_spec.spec_name # extracted_specs[i].spec_name
                  /\ Lower(mappings[k].extracted_spec.spec_name)
                         = Lower(extracted_specs[i].spec_name)

-----------------------------------------------------------------------------
(* Properties of the Translator *)

\* the oracle call of the last translate_text call was made and failed
OracleFailed(c) == c.oracle \in {"raised", "no_text"}

\* C6: with the cache enabled, two successive translate_text calls with the
\* same non-blank text return the same output and invoke the oracle at most
\* once between them: the first call stores its result and the second call is
\* served from that entry.  Stated for a first call whose oracle call
\* succeeded and whose cache file was written (and so also for a first call
\* that was itself served from the cache).
C6_SecondCallServedFromCache ==
    [][ ( /\ cache_enabled
          /\ calls >= 1
          /\ calls' = calls + 1
          /\ tcall'.text = tcall.text
          /\ Strip(tcall.text) # <<>>
          /\ ~OracleFailed(tcall)
          /\ tcall.oracle = "ok" => tcall.saved )
        => ( /\ tcall'.result = tcall.result
             /\ tcall.oracle = "none" \/ tcall'.oracle = "none" ) ]_vars

\* C7: whenever the cache holds an entry for the text's content hash,
\* translate_text returns the stored translation and makes no oracle call,
\* whatever the stored translation and the source language argument.
C7_CacheHitSkipsOracle ==
    (calls >= 1 /\ tcall.cached # None)
        => (tcall.result = tcall.cached[1] /\ tcall.oracle = "none")

\* C8: translate_text never raises, and when its oracle call fails it returns
\* its input text unchanged; so a translate_page whose oracle call fails
\* leaves page.text as it was before the call and sets page.original_text to
\* that text.
C8_FailSoft ==
    /\ ~tcall.raised
    /\ OracleFailed(tcall) => tcall.result = tcall.text
    /\ (pcall.translated /\ OracleFailed(pcall))
           => (page.text = pcall.text /\ page.original_text = pcall.text)

\* a German page whose translation failed on a raising oracle
C8_Witness ==
    /\ pcall.translated
    /\ pcall.oracle = "raised"
    /\ tcall.oracle = "raised"
    /\ tcall.text = T_DEPadded
    /\ page.language = "de"
    /\ page.text = T_DEPadded
    /\ page.original_text = T_DEPadded

\* C9: after any sequence of translate_page calls on a page, if the page's
\* language is not "en" then original_text is non-empty and is the text the
\* decoder supplied, and if the last call needed no translation then
\* original_text equals text.
C9_OriginalTextPreserved ==
    pcall # NoPageCall =>
        /\ page.language # "en" =>
               (page.original_text # <<>> /\ page.original_text = decoded_text)
        /\ ~pcall.translated => page.original_text = page.text

\* C16: translation reaches the oracle through generate with its bounded
\* retry: a failing translation oracle call is retried up to the retry
\* ceiling before translate_text falls back to returning the original text.
C16_TranslationRetried ==
    (calls >= 1 /\ OracleFailed(tcall)) =>
        /\ tcall.result = tcall.text
        /\ OracleAttempts(tcall) = DefaultMaxRetries

-----------------------------------------------------------------------------
(* Properties of the Relevance Filter *)

\* the responses that are not a relevance verdict: prose around the JSON, a
\* JSON value that is not an object, a fence with no line to drop
UnparsableResponses == {R_Prose, R_List, R_FenceNoNewline}

\* C10: is_relevant never raises; when its oracle call fails, or the
\* response cannot be parsed as the relevance verdict, the document is
\* treated as relevant and the reason notes the fallback.
C10_FailOpen ==
    fpc = "done" =>
        /\ ~fres.raised
        /\ ( \/ fres.oracle = "raised"
             \/ fres.oracle = "ok" /\ fres.response \in UnparsableResponses )
           => ( /\ fres.is_relevant = TRUE
                /\ fres.reason = "Keyword match found (LLM filtering failed)" )

\* a document that passed the keyword prefilter and whose oracle response is
\* a fenced verdict of "not relevant" without a line break after the fence
C10_Witness ==
    /\ fpc = "done"
    /\ filter_keywords # <<>>
    /\ fres.oracle = "ok"
    /\ fres.response = R_FenceNoNewline
    /\ fres.is_relevant = TRUE
    /\ fres.reason = "Keyword match found (LLM filtering failed)"

\* is_relevant went past its keyword prefilter
PrefilterAccepted == fres.reason # "No display-related keywords found in document"

\* some keyword occurs, whatever its case, in the text of all pages
KeywordOccurs ==
    \E k \in 1..Len(filter_keywords) :
        Contains(Lower(filter_keywords[k]), Lower(JoinWithSpace(doc_pages)))

\* C11: the keyword prefilter accepts a document iff there are no keywords or
\* some keyword occurs case-insensitively in the concatenated text of the
\* pages; when it rejects, is_relevant answers not relevant and the oracle is
\* not called.
C11_KeywordPrefilter ==
    fpc = "done" =>
        /\ PrefilterAccepted <=> (filter_keywords = <<>> \/ KeywordOccurs)
        /\ ~PrefilterAccepted => (fres.is_relevant = FALSE /\ fres.oracle = "none")

\* an English page about contrast rejected for the keyword "Glass"
C11_Witness ==
    /\ fpc = "done"
    /\ filter_keywords = <<K_Glass>>
    /\ doc_pages = <<T_EN, T_DE>>
    /\ ~PrefilterAccepted
    /\ fres.is_relevant = FALSE
    /\ fres.oracle = "none"

\* the pages is_relevant samples
SampledPages ==
    1..(IF Len(doc_pages) < MaxSamplePages THEN Len(doc_pages) ELSE MaxSamplePages)

\* C12: when the text sampled from the first pages is below the threshold of
\* 50 characters, in particular when every sampled page has empty text or
\* the document has no pages, is_relevant answers not relevant with the
\* reason "Document has insufficient text content" and calls no oracle.
C12_InsufficientText ==
    ( /\ fpc = "done"
      /\ PrefilterAccepted
      /\ \/ Len(Strip(sample_text(doc_pages))) < MinSampleLen
         \/ \A i \in SampledPages : doc_pages[i] = <<>> )
    => ( /\ fres.is_relevant = FALSE
         /\ fres.reason = "Document has insufficient text content"
         /\ fres.oracle = "none" )

-----------------------------------------------------------------------------
(* Properties of the Spec Extractor *)

\* the specs of the page results from result i on, in page order
RECURSIVE ConcatSpecs(_, _)
ConcatSpecs(results, i) ==
    IF i > Len(results) THEN <<>>
    ELSE results[i].specs \o ConcatSpecs(results, i + 1)

\* responses that do not parse, and responses that parse to something other
\* than a list
UnparsableExtractions == {X_FenceNoNewline, X_Prose}
NotListExtractions == {<<"{T}">>}

\* C13: extract_specs_from_page never raises; an oracle failure, a response
\* that does not parse and a parsed response that is not a list each give an
\* empty result for the page, and extract_from_document goes on with the
\* remaining pages and returns the specs of the pages that succeeded.
C13_PageFailureIsLocal ==
    /\ epc # "aborted"
    /\ \A k \in 1..Len(page_results) :
          /\ ~page_results[k].raised
          /\ ( \/ page_results[k].oracle = "raised"
               \/ page_results[k].response \in UnparsableExtractions
               \/ page_results[k].response \in NotListExtractions )
             => page_results[k].specs = <<>>
    /\ epc = "done" =>
          /\ Len(page_results) = Len(e_pages)
          /\ all_specs = ConcatSpecs(page_results, 1)

\* a document whose first page failed on the oracle and whose second page
\* gave two specs
C13_Witness ==
    /\ epc = "done"
    /\ Len(page_results) = 2
    /\ page_results[1].oracle = "raised"
    /\ page_results[1].specs = <<>>
    /\ page_results[2].response = <<"[A,ab]">>
    /\ Len(all_specs) = 2
    /\ all_specs = page_results[2].specs

\* the spec names of the responses that are lists of objects, in the order
\* of the response
ListedNames(response) ==
    CASE response = <<"[]">> -> <<>>
      [] response = <<"[A]">> -> <<(<<"A">>)>>
      [] response = <<"[A,ab]">> -> <<(<<"A">>), (<<"a", "b">>)>>
      [] response = <<"[ab,A]">> -> <<(<<"a", "b">>), (<<"A">>)>>
      [] response = <<"[a_]">> -> <<(<<"a", " ">>)>>
      [] response = <<"[{}]">> -> <<(<<>>)>>
      [] response = X_FencedList -> <<(<<"A">>), (<<"a", "b">>)>>
      [] OTHER -> <<>>

ListsOfObjects ==
    {<<"[]">>, <<"[A]">>, <<"[A,ab]">>, <<"[ab,A]">>, <<"[a_]">>, <<"[{}]">>, X_FencedList}

\* the items of a response that is a list (the cleaned response parses to a
\* list), None for any other response
ListedItems(response) ==
    LET cleaned == clean_response(response)
    IN  IF cleaned = None THEN None
        ELSE LET specs_data == json_loads(cleaned[1])
             IN  IF specs_data = None THEN None
                 ELSE IF ~IsList(specs_data[1]) THEN None
                 ELSE Some(JsonList(specs_data[1]))

C14_NonObjectItemPage ==
    /\ epc = "done"
    /\ Len(page_results) = 2
    /\ page_results[1].response = <<"[A,7]">>
    /\ page_results[1].specs = <<>>
    /\ page_results[2].response = <<"[A,ab]">>
    /\ Len(all_specs) = 2
    /\ all_specs[1].reference.page_label = PageLabel(2)

\* C20: every ExtractedSpec of extract_specs_from_page, and its
\* SpecReference, has a confidence in [0,1], whatever confidence the item of
\* the response reports or omits.
C20_ConfidenceInUnitInterval ==
    \A i \in 1..Len(all_specs) :
        /\ all_specs[i].confidence >= 0
        /\ all_specs[i].confidence <= 3000
        /\ all_specs[i].reference.confidence >= 0
        /\ all_specs[i].reference.confidence <= 3000

-----------------------------------------------------------------------------
(* Properties of the oracle client *)

\* the attempts made so far, and those of them that failed
AttemptsMade == Len(g_errors)
FailedAttempts == {k \in 1..Len(g_errors) : g_errors[k].class # ""}

\* C15: generate makes at most max_retries attempts; it returns the response
\* of the first attempt that succeeds and makes no further attempt; after the
\* k-th failed attempt that is not the last it waits retry_delay * k; when
\* every attempt fails it raises the error of the last attempt.  This for
\* every configured max_retries.
C15_BoundedRetry ==
    /\ AttemptsMade <= max_retries
    /\ \A k \in 1..AttemptsMade : g_errors[k].class = "" => k = AttemptsMade
    /\ g_out.kind = "return" =>
          (AttemptsMade >= 1 /\ g_errors[AttemptsMade].class = "")
    /\ g_sleeps = [k \in FailedAttempts \ {max_retries} |-> retry_delay * k]
    /\ g_out.kind = "raise" =>
          /\ AttemptsMade >= 1
          /\ FailedAttempts = 1..AttemptsMade
          /\ g_out.value = g_errors[AttemptsMade]

-----------------------------------------------------------------------------
(* Properties of the pipeline orchestrator *)

\* stage `stage` ran for document d before event i
RanBefore(i, stage, d) ==
    \E j \in 1..(i - 1) : p_events[j] = <<stage, d>>

\* C17: the orchestrator runs filter, translate, extract, map in that order:
\* the relevance of a document is decided before any of its pages is
\* translated, translation precedes extraction, and mapping runs only after
\* the extraction of all documents.
C17_FilterBeforeTranslate ==
    \A i \in 1..Len(p_events) :
        LET stage == p_events[i][1]
            d == p_events[i][2]
        IN  /\ stage = "translate" => RanBefore(i, "filter", d)
            /\ stage = "extract" => RanBefore(i, "translate", d)
            /\ stage = "map" =>
                  /\ i = Len(p_events)
                  /\ \A k \in 1..Len(relevant_docs) :
                        RanBefore(i, "extract", relevant_docs[k])

\* a name without its case and its surrounding space
NormalName(name) == Strip(Lower(name))

\* the run had one document of one page, the page was not English and was
\* translated, and extraction returned tuples
OneTranslatedPage ==
    /\ ppc = "done"
    /\ Len(documents) = 1
    /\ Len(documents[1].pages) = 1
    /\ documents[1].pages[1].language # "en"
    /\ documents[1].pages[1].original_text = T_DESheet
    /\ documents[1].pages[1].text = T_ENSheet
    /\ extracted_specs # <<>>

\* every tuple is named like a template field, and no two tuples alike
NamedLikeDistinctFields ==
    /\ \A i \in 1..Len(extracted_specs) :
          \E f \in 1..Len(template_fields) :
              NormalName(extracted_specs[i].spec_name)
                  = NormalName(template_fields[f].spec_name)
    /\ \A i, j \in 1..Len(extracted_specs) :
          i # j => NormalName(extracted_specs[i].spec_name)
                       # NormalName(extracted_specs[j].spec_name)

\* C19: end to end, for a document with one non-English page whose
\* translation succeeds and whose extraction returns tuples each named, up to
\* case and surrounding space, like a distinct template field: there is one
\* MappingResult per such field, with confidence 1.0, and no unmatched spec.
C19_EndToEndExactMappings ==
    (OneTranslatedPage /\ NamedLikeDistinctFields) =>
        /\ Len(mappings) = Len(extracted_specs)
        /\ \A i \in 1..Len(extracted_specs) :
              \E k \in 1..Len(mappings) :
                  /\ mappings[k].extracted_spec = extracted_specs[i]
                  /\ mappings[k].match_confidence = 3000
                  /\ NormalName(mappings[k].template_field.spec_name)
                         = NormalName(extracted_specs[i].spec_name)
        /\ \A k, l \in 1..Len(mappings) :
              k # l => mappings[k].template_field.row # mappings[l].template_field.row
        /\ unmatched = <<>>

\* the German sheet translated, two tuples "A" and "ab" extracted and mapped
\* to the fields "a" and "Ab"
C19_Witness ==
    /\ OneTranslatedPage
    /\ NamedLikeDistinctFields
    /\ Len(extracted_specs) = 2
    /\ Len(mappings) = 2
    /\ mappings[1].template_field.row = 2
    /\ mappings[2].template_field.row = 3
    /\ mappings[2].match_confidence = 3000
    /\ unmatched = <<>>

-----------------------------------------------------------------------------
(* Properties of parallel translate_text calls *)

AllReturned == \A th \in Callers : c_pc[th] = "done"

\* the callers whose write_text completed
Writers == {th \in Callers : c_local[th].saved}

\* the cache file is the entry caller th wrote
HoldsEntryOf(th) ==
    shared_file = [exists |-> TRUE,
                   data |-> dumps_entry(ParallelText, c_local[th].translated[1])]

\* a cache read returns None or a translation some writer stored
ReaderObtainsStoredValue ==
    \A th \in Callers :
        c_local[th].cached # None => c_local[th].cached[1] \in c_stored

\* a caller was served, as a cache hit, a text that no writer stored: its
\* reads of the file fell between the writes of other callers
TornCacheRead ==
    \E th \in Callers :
        /\ c_pc[th] = "done"
        /\ Truthy(c_local[th].cached)
        /\ c_local[th].result = c_local[th].cached
        /\ c_local[th].cached[1] \notin c_stored

\* C18: concurrent translate_text calls on identical text, in any
\* interleaving of their cache reads, oracle calls and cache writes, leave
\* the same cache entry (the entry of every writer is the entry in the cache
\* after the calls), and a cache read never returns a value that no writer
\* stored.
C18_ConcurrentWritersIdempotent ==
    /\ AllReturned => \A th \in Writers : HoldsEntryOf(th)
    /\ ReaderObtainsStoredValue

\* after the calls the cache file is a well-formed entry of a translation
\* that no caller stored: a write that failed part-way overwrote the head of
\* another caller's entry
PatchedCacheEntry ==
    /\ AllReturned
    /\ loads_entry(shared_file.data) # None
    /\ loads_entry(shared_file.data)[1] \notin c_stored

\* after the calls the cache file is not an entry at all
TornCacheFile ==
    /\ AllReturned
    /\ Writers # {}
    /\ shared_file.exists
    /\ shared_file.data # <<>>
    /\ loads_entry(shared_file.data) = None

-----------------------------------------------------------------------------
(* Further properties of the Field Mapper *)

\* the template positions whose field matches the spec exactly, partially
ExactFields(s) == {f \in Dom(template_fields) : ExactMatch(s, template_fields[f])}
PartialFields(s) == {f \in Dom(template_fields) : PartialMatch(s, template_fields[f])}

\* C23: in the scan of the template for one spec, a partially matching field
\* becomes the candidate only when extraction confidence x 0.9 is strictly
\* greater than the best candidate confidence so far: a spec that matches
\* several fields partially and none exactly keeps the first of them, a later
\* field of equal candidate confidence does not replace it.
C23_FirstPartialCandidateStays ==
    Mapped =>
        \A i \in Dom(extracted_specs) :
            LET s == extracted_specs[i]
            IN  (ExactFields(s) = {} /\ PartialFields(s) # {}) =>
                    candidates[i] =
                        IF PartialConfidence(s) > 0
                        THEN [match |-> <<template_fields[SetMin(PartialFields(s))]>>,
                              confidence |-> PartialConfidence(s)]
                        ELSE NoMatch

\* C24: no template field is excluded because an earlier spec targeted it:
\* the tentative (field, confidence) of a spec is the one it gets as the only
\* spec of the input, whatever the other specs and their order, and so two
\* specs alike in name and confidence get the same candidate.
C24_CandidateOfSpecAlone ==
    Mapped =>
        /\ \A i \in Dom(extracted_specs) :
               candidates[i] = Candidates(<<extracted_specs[i]>>, template_fields)[1]
        /\ \A i, j \in Dom(extracted_specs) :
               (/\ extracted_specs[i].spec_name = extracted_specs[j].spec_name
                /\ extracted_specs[i].confidence = extracted_specs[j].confidence)
               => candidates[i] = candidates[j]

\* two specs of different names tentatively target the one field of the
\* template, the second of them exactly
C24_Witness ==
    /\ Mapped
    /\ Len(template_fields) = 1
    /\ Len(tentative) = 2
    /\ tentative[1].template_field = tentative[2].template_field
    /\ tentative[1].extracted_spec.spec_name # tentative[2].extracted_spec.spec_name
    /\ tentative[1].match_confidence < ExactConfidence
    /\ tentative[2].match_confidence = ExactConfidence

\* every extraction confidence of the input lies in [0, 1]
ConfidencesInRange ==
    \A i \in Dom(extracted_specs) :
        extracted_specs[i].confidence >= 0 /\ extracted_specs[i].confidence <= 3000

\* the tentative mappings to row r made by the exact-match branch
ExactTentativeTo(r) ==
    {t \in MappingsTo(tentative, r) :
        /\ tentative[t].match_confidence = ExactConfidence
        /\ ExactMatch(tentative[t].extracted_spec, tentative[t].template_field)}

\* C26: when all extraction confidences lie in [0, 1], an exact-match mapping
\* is never displaced by a partial-match mapping: for a field that some
\* spec's tentative mapping targets exactly, the surviving mapping has
\* confidence 1.0 and its spec is the first spec of the input whose tentative
\* mapping to the field is exact.
C26_ExactNotDisplaced ==
    (Mapped /\ ConfidencesInRange) =>
        \A f \in Dom(template_fields) :
            LET r == template_fields[f].row
                exact == ExactTentativeTo(r)
            IN  exact # {} =>
                    /\ Cardinality(MappingsTo(mappings, r)) = 1
                    /\ \A k \in MappingsTo(mappings, r) :
                           /\ mappings[k].match_confidence = ExactConfidence
                           /\ mappings[k] = tentative[SetMin(exact)]

\* a spec of confidence 1.0 targets the field partially (0.9), a later spec
\* targets it exactly, and the later one is returned
C26_Witness ==
    /\ Mapped
    /\ ConfidencesInRange
    /\ Len(tentative) = 2
    /\ tentative[1].template_field = tentative[2].template_field
    /\ tentative[1].extracted_spec.confidence = 3000
    /\ tentative[1].match_confidence = 2700
    /\ tentative[2].match_confidence = ExactConfidence
    /\ Len(mappings) = 1
    /\ mappings[1] = tentative[2]

\* C27: no extracted spec is lost between mapping and presentation: every
\* spec of the input is the underlying spec of a returned mapping or an
\* element of the unmatched list.
C27_MappedOrUnmatched ==
    mpc = "done" =>
        \A i \in Dom(extracted_specs) :
            \/ \E k \in Dom(mappings) : mappings[k].extracted_spec = extracted_specs[i]
            \/ \E u \in Dom(unmatched) : unmatched[u] = extracted_specs[i]

\* C29: an empty name matches nothing: no returned mapping has a spec whose
\* name is empty or a template field whose name is empty.
C29_NoEmptyNameMapped ==
    Mapped =>
        \A k \in Dom(mappings) :
            /\ mappings[k].extracted_spec.spec_name # <<>>
            /\ mappings[k].template_field.spec_name # <<>>

-----------------------------------------------------------------------------
(* Further properties of the Translator *)

\* C28: a translate_text call whose oracle call fails leaves the cache as it
\* was, no entry created or overwritten; so the next translate_text call
\* with the same text consults the oracle again and is not served the
\* untranslated fallback from the cache.
C28_FailedCallLeavesCache ==
    [][ /\ (calls' = calls + 1 /\ OracleFailed(tcall')) => cache' = cache
        /\ ( /\ calls >= 1
             /\ calls' = calls + 1
             /\ OracleFailed(tcall)
             /\ tcall'.text = tcall.text )
           => tcall'.oracle # "none" ]_vars

\* the cache holds a blank translation for the text, a second call looked it
\* up, its oracle call raised, and the entry is still the blank translation
C28_Witness ==
    /\ cache_enabled
    /\ calls >= 2
    /\ tcall.text = T_DE
    /\ tcall.oracle = "raised"
    /\ tcall.cached = Some(<<>>)
    /\ tcall.result = T_DE
    /\ get_cache_key(T_DE) \in DOMAIN cache
    /\ cache[get_cache_key(T_DE)] # TruncatedFile
    /\ cache[get_cache_key(T_DE)].translated_text = <<>>

-----------------------------------------------------------------------------
(* Further properties of the Spec Extractor *)

\* the source_text snippets of the responses that are lists of objects, in
\* the order of the response ("" for an item without the key)
ListedSnippets(response) ==
    CASE response = <<"[]">> -> <<>>
      [] response = <<"[A]">> -> <<T_EN>>
      [] response = <<"[A,ab]">> -> <<T_EN, T_ShortDE>>
      [] response = <<"[ab,A]">> -> <<T_ShortDE, T_EN>>
      [] response = <<"[a_]">> -> <<(<<>>)>>
      [] response = <<"[{}]">> -> <<(<<>>)>>
      [] response = X_FencedList -> <<T_EN, T_ShortDE>>
      [] OTHER -> <<>>

\* the page underwent translation
Translated(pg) == pg.original_text # <<>> /\ pg.original_text # pg.text

\* C25: for a page that underwent translation, the reference's original_text
\* is the snippet the oracle reported when the snippet occurs verbatim in the
\* page's pre-translation text, and the manual-lookup note otherwise; the
\* reference's translated_text is the reported snippet on every page.
C25_OriginalSnippet ==
    \A k \in 1..Len(page_results) :
        (page_results[k].oracle = "ok" /\ page_results[k].response \in ListsOfObjects)
        => LET snippets == ListedSnippets(page_results[k].response)
               specs == page_results[k].specs
           IN  /\ Len(specs) = Len(snippets)
               /\ \A i \in 1..Len(specs) :
                     /\ specs[i].reference.translated_text = snippets[i]
                     /\ Translated(e_pages[k]) =>
                            specs[i].reference.original_text =
                                IF Contains(snippets[i], e_pages[k].original_text)
                                THEN snippets[i]
                                ELSE SeeOriginal

\* a translated page with two items: the English snippet is not in the German
\* text and gets the note, the snippet "Kontrast" is and is kept
C25_Witness ==
    /\ Len(page_results) >= 1
    /\ e_pages[1] = [text |-> T_EN, original_text |-> T_DE]
    /\ page_results[1].response = <<"[A,ab]">>
    /\ Len(page_results[1].specs) = 2
    /\ page_results[1].specs[1].reference.translated_text = T_EN
    /\ page_results[1].specs[1].reference.original_text = SeeOriginal
    /\ page_results[1].specs[2].reference.translated_text = T_ShortDE
    /\ page_results[1].specs[2].reference.original_text = T_ShortDE

-----------------------------------------------------------------------------
(* Further properties of the pipeline orchestrator *)

\* the events of stage `stage` for document d in the list of events ev
StageEvents(ev, stage, d) == {j \in 1..Len(ev) : ev[j] = <<stage, d>>}

\* C30: in every run the relevance flag and reason of a document are set
\* once, by the filter, and not changed afterwards; the extraction stage
\* runs only for documents whose flag is true, and every ExtractedSpec handed
\* to the mapper comes from such a document.
C30_ExtractOnlyRelevant ==
    [][ /\ \A d \in 1..Len(documents) :
              ( \/ documents'[d].is_relevant # documents[d].is_relevant
                \/ documents'[d].relevance_reason # documents[d].relevance_reason
                \/ StageEvents(p_events', "filter", d) # StageEvents(p_events, "filter", d) )
              => ( /\ ppc = "filter"
                   /\ p_doc = d
                   /\ StageEvents(p_events, "filter", d) = {} )
        /\ ppc' \notin {"translate", "filter"} =>
              \A d \in 1..Len(documents) :
                  Cardinality(StageEvents(p_events', "filter", d)) = 1
        /\ \A d \in 1..Len(documents) :
              StageEvents(p_events', "extract", d) # {} =>
                  /\ documents'[d].is_relevant
                  /\ \A j \in StageEvents(p_events', "extract", d) :
                         StageEvents(p_events', "filter", d) \subseteq 1..(j - 1)
        /\ \A i \in 1..Len(extracted_specs') :
              \E d \in 1..Len(documents) :
                  /\ documents'[d].file_name = extracted_specs'[i].reference.source_file
                  /\ documents'[d].is_relevant ]_vars

\* two documents, the first judged irrelevant and the second relevant: the
\* specs handed to the mapper are those of the second
C30_Witness ==
    /\ ppc = "done"
    /\ Len(documents) = 2
    /\ ~documents[1].is_relevant
    /\ documents[2].is_relevant
    /\ StageEvents(p_events, "extract", 1) = {}
    /\ StageEvents(p_events, "extract", 2) # {}
    /\ Len(extracted_specs) = 2
    /\ \A i \in 1..2 : extracted_specs[i].reference.source_file = DocName(2)

-----------------------------------------------------------------------------
(* Properties of the template reader *)

\* the rows whose cell in column A holds a value
NamedRows == {r \in 1..Len(ws_cells) : ws_cells[r].kind # "none"}

\* the first row with a name is a header: its text, trimmed and lower-cased,
\* is a header label
HasHeader ==
    /\ NamedRows # {}
    /\ Lower(Strip(Str(ws_cells[SetMin(NamedRows)]))) \in HeaderLabels

\* C22: read_template returns one TemplateField for every row whose cell in
\* the field-name column is not empty and for no other row, in increasing
\* row order under the 1-based row number, except that the first such row is
\* left out when its text is a header label up to case.
C22_FieldsOfNamedRows ==
    wpc = "done" =>
        LET kept == IF HasHeader THEN NamedRows \ {SetMin(NamedRows)} ELSE NamedRows
        IN  /\ Len(t_fields) = Cardinality(kept)
            /\ {t_fields[i].row : i \in 1..Len(t_fields)} = kept
            /\ \A i, j \in 1..Len(t_fields) :
                   i < j => t_fields[i].row < t_fields[j].row
            /\ \A i \in 1..Len(t_fields) :
                   t_fields[i].spec_name = Strip(Str(ws_cells[t_fields[i].row]))
            /\ header_row # None <=> HasHeader

\* an empty first row, the header "ITEM " in upper case in row 2, a field in
\* row 3
C22_Witness ==
    /\ wpc = "done"
    /\ ws_cells = <<EmptyCell, TextCell(<<"I", "T", "E", "M", " ">>),
                    TextCell(<<" ", "A", "b">>)>>
    /\ t_fields = <<[row |-> 3, spec_name |-> <<"A", "b">>]>>
    /\ header_row = Some([row |-> 2, spec_name |-> <<"I", "T", "E", "M">>])

-----------------------------------------------------------------------------
(* Properties of the startup of main() *)

MissingAtStartup == ~input_existed \/ ~template_exists

\* C21: when the input folder or the template file is missing at startup,
\* the run reports the error, once, and ends before any processing: no
\* document is parsed, no stage that calls the oracle runs, and no result is
\* written.
C21_FatalBeforeProcessing ==
    (MissingAtStartup /\ ppc # "startup") =>
        /\ ppc = "exit_1"
        /\ Len(reported) = 1
        /\ api_key = "k" =>
               reported[1] = IF ~input_existed THEN InputNotFound ELSE TemplateNotFound
        /\ p_events = <<>>
        /\ documents = <<>>
        /\ cache = << >>
        /\ ~output_written

\* a run with a key and an input folder and without the template: ended
\* with the template's error
C21_Witness ==
    /\ ppc = "exit_1"
    /\ api_key = "k"
    /\ input_existed
    /\ ~template_exists
    /\ reported = <<TemplateNotFound>>
    /\ p_events = <<>>
    /\ ~output_written

=============================================================================
